---- MODULE Spec2Model ----
(***************************************************************************)
(* etcd-recovery: the repair front-end (modes add / create / both), the    *)
(* Create-Single-Member task and the Add-Member task, run against a model  *)
(* of the hosts they drive (kubelet, etcd containers, the etcd member      *)
(* list, the static-pod manifest and the learner's data directory).        *)
(*                                                                         *)
(* Strings that the code inspects (manifest arguments, container names,    *)
(* peer URLs) are sequences of string tokens, so that strings.HasPrefix,   *)
(* strings.TrimSpace and url.Hostname are computed and not assumed.        *)
(***************************************************************************)
EXTENDS Integers, Sequences, FiniteSets, TLC

\* ------------------------------------------------------------------ bounds

\* Container IDs the kubelets may hand out in one behaviour.
MaxCID == 5
\* Remote commands that may fail for their whole polling window.
MaxFaults == 1
\* Times the operator may kill the program (Ctrl-C, lost terminal).
MaxInterrupts == 2
\* Program invocations in one behaviour.
MaxRuns == 1

\* ------------------------------------------------------- program constants

\* promoteLearner: maxRetries
PromoteMaxRetries == 50
\* waitForClusterOrMemberStatusHealthy: maxRetries
HealthMaxRetries == 20

\* --------------------------------------------------------------- strings

\* a path that holds no file (a manifest file is never the empty document)
NoFile == <<>>

\* A manifest file that sftp has created or truncated and that holds no bytes
\* yet: it decodes to a pod without an etcd container.
EmptyFile == <<[name |-> <<>>, command |-> <<>>]>>

\* A manifest file that holds the first bytes of an upload only. yaml.Marshal
\* writes the keys of a container in alphabetical order, command before name:
\* a file cut before the name decodes to a container without a name.
PartialFile == <<[name |-> <<>>, command |-> <<<<"etcd">>>>]>>

\* A manifest file cut inside a token (an open quote): yaml.Unmarshal fails.
GarbledFile == <<[name |-> <<>>, command |-> <<<<"\"">>>>]>>

\* the files an upload that lost its connection during io.Copy leaves behind
TornFiles == {EmptyFile, PartialFile, GarbledFile}

\* the file is a static pod with an etcd container
HasEtcd(m) == \E i \in 1..Len(m) : m[i].name = <<"etcd">>

\* strings.HasPrefix on token sequences
HasPrefix(s, p) == Len(p) <= Len(s) /\ SubSeq(s, 1, Len(p)) = p

\* unicode.IsSpace, for the tokens of the model
Whitespace == {" ", "\t", "\n"}

RECURSIVE TrimLeft(_)
TrimLeft(s) == IF s # <<>> /\ Head(s) \in Whitespace THEN TrimLeft(Tail(s)) ELSE s

RECURSIVE TrimRight(_)
TrimRight(s) ==
    IF s # <<>> /\ s[Len(s)] \in Whitespace THEN TrimRight(SubSeq(s, 1, Len(s) - 1)) ELSE s

\* strings.TrimSpace
TrimSpace(s) == TrimRight(TrimLeft(s))

\* fmt.Sprintf("https://%s:2380", host)
PeerURL(host) == <<"https://", host, ":2380">>

\* url.Parse(rawURL).Hostname(): "" when the URL does not parse
extractIPFromPeerURL(rawURL) ==
    IF Len(rawURL) >= 2 /\ rawURL[1] \in {"https://", "http://"} THEN rawURL[2] ELSE ""

\* strings.Contains(url, host) for a host that is one token
Contains(s, tok) == \E i \in 1..Len(s) : s[i] = tok

\* the digits of n in base b, most significant first (strconv.FormatUint, %x)
RECURSIVE Digits(_, _)
Digits(n, b) == IF n < b THEN <<n>> ELSE Append(Digits(n \div b, b), n % b)

FormatHex(id) == Digits(id, 16)
FormatDec(id) == Digits(id, 10)

\* etcdctl reads the member ID of member remove / member promote as hexadecimal
RECURSIVE ParseHex(_)
ParseHex(d) == IF d = <<>> THEN 0 ELSE 16 * ParseHex(SubSeq(d, 1, Len(d) - 1)) + d[Len(d)]

\* ------------------------------------------------------- manifest editor

ForceFlag == <<"--force-new-cluster">>
InitialClusterPrefix == <<"--initial-cluster">>
InitialClusterStatePrefix == <<"--initial-cluster", "-state">>

\* number of occurrences of x in sequence s
Count(s, x) == Cardinality({i \in 1..Len(s) : s[i] = x})

RECURSIVE SelectSeqNot(_, _)
\* the arguments of cmd that do not begin with any prefix of pfxs, in order
SelectSeqNot(cmd, pfxs) ==
    IF cmd = <<>> THEN <<>>
    ELSE IF \E p \in pfxs : HasPrefix(Head(cmd), p)
         THEN SelectSeqNot(Tail(cmd), pfxs)
         ELSE <<Head(cmd)>> \o SelectSeqNot(Tail(cmd), pfxs)

\* compareSlice without the sort: equal element by element
compareSlice_ordered(a, b) == a = b

\* compareSlice: equal length and equal after sorting, i.e. equal as multisets
compareSlice(a, b) ==
    /\ Len(a) = Len(b)
    /\ \A i \in 1..Len(a) : Count(a, a[i]) = Count(b, a[i])

\* index of the first container whose trimmed name is containerName, 0 if none
FindContainer(pod, containerName) ==
    LET hits == {i \in 1..Len(pod) : TrimSpace(pod[i].name) = containerName}
    IN  IF hits = {} THEN 0 ELSE CHOOSE i \in hits : \A j \in hits : i <= j

\* updateForceNewClusterCommand that reports a change whenever it adds the flag
updateForceNewClusterCommand_changedOnAdd(pod, containerName, add) ==
    LET i == FindContainer(pod, containerName)
    IN  IF i = 0 THEN [pod |-> pod, changed |-> FALSE, err |-> TRUE]
        ELSE LET kept == SelectSeqNot(pod[i].command, {ForceFlag})
                 newCmd == IF add THEN Append(kept, ForceFlag) ELSE kept
             IN  [pod |-> [pod EXCEPT ![i].command = newCmd],
                  changed |-> add \/ ~compareSlice(pod[i].command, newCmd),
                  err |-> FALSE]

\* updateForceNewClusterCommand that keeps the --force-new-cluster arguments
\* the command already has
updateForceNewClusterCommand_keep(pod, containerName, add) ==
    LET i == FindContainer(pod, containerName)
    IN  IF i = 0 THEN [pod |-> pod, changed |-> FALSE, err |-> TRUE]
        ELSE LET kept == IF add THEN pod[i].command
                         ELSE SelectSeqNot(pod[i].command, {ForceFlag})
                 newCmd == IF add THEN Append(kept, ForceFlag) ELSE kept
             IN  [pod |-> [pod EXCEPT ![i].command = newCmd],
                  changed |-> ~compareSlice(pod[i].command, newCmd),
                  err |-> FALSE]

\* updateForceNewClusterCommand(pod, containerName, add): [pod, changed, err]
updateForceNewClusterCommand(pod, containerName, add) ==
    LET i == FindContainer(pod, containerName)
    IN  IF i = 0 THEN [pod |-> pod, changed |-> FALSE, err |-> TRUE]
        ELSE LET kept == SelectSeqNot(pod[i].command, {ForceFlag})
                 newCmd == IF add THEN Append(kept, ForceFlag) ELSE kept
             IN  [pod |-> [pod EXCEPT ![i].command = newCmd],
                  changed |-> ~compareSlice(pod[i].command, newCmd),
                  err |-> FALSE]

\* updateEtcdManifestForExistingCluster(pod, initialCluster, initialClusterState)
updateEtcdManifestForExistingCluster(pod, initialCluster, initialClusterState) ==
    LET i == FindContainer(pod, <<"etcd">>)
    IN  IF i = 0 THEN [pod |-> pod, err |-> TRUE]
        ELSE LET kept == SelectSeqNot(pod[i].command,
                                      {InitialClusterPrefix, InitialClusterStatePrefix})
                 c1 == IF initialCluster # <<>>
                       THEN Append(kept, InitialClusterPrefix \o <<"=">> \o initialCluster)
                       ELSE kept
                 c2 == IF initialClusterState # <<>>
                       THEN Append(c1, InitialClusterStatePrefix \o <<"=">> \o initialClusterState)
                       ELSE c1
             IN  [pod |-> [pod EXCEPT ![i].command = c2], err |-> FALSE]

\* whether the etcd container of a manifest on disk is started with the flag
HasForce(m) ==
    /\ m # NoFile
    /\ \E i \in 1..Len(m) :
         /\ TrimSpace(m[i].name) = <<"etcd">>
         /\ \E k \in 1..Len(m[i].command) : HasPrefix(m[i].command[k], ForceFlag)

HasExistingState(m) ==
    /\ m # NoFile
    /\ \E i \in 1..Len(m) :
         /\ TrimSpace(m[i].name) = <<"etcd">>
         /\ \E k \in 1..Len(m[i].command) :
              m[i].command[k] = InitialClusterStatePrefix \o <<"=", "existing">>

\* ------------------------------------------------------------ the hosts

IPs == {"ip1", "ip2", "ip3"}
\* a machine that is in no hosts file
UnknownIP == "ip99"

\* what `hostname` prints on each machine
Hostname == [ip \in IPs \cup {UnknownIP} |->
               CASE ip = "ip1" -> "node1" [] ip = "ip2" -> "node2"
                 [] ip = "ip3" -> "node3" [] OTHER -> "node99"]

\* the --name of the etcd of each machine (ip2's differs from its hostname)
EtcdName == [ip \in IPs \cup {UnknownIP} |->
               IF ip = "ip2" THEN "m2" ELSE Hostname[ip]]

\* the ID etcd gives the member of each machine
MemberIDOf == [ip \in IPs \cup {UnknownIP} |->
               CASE ip = "ip1" -> 10 [] ip = "ip2" -> 17
                 [] ip = "ip3" -> 26 [] OTHER -> 161]

\* the operator's copy of the original static-pod manifest on machine ip
BackupPod(ip) ==
    << [name |-> <<"etcd">>,
        command |-> << <<"etcd">>,
                       <<"--name", "=", EtcdName[ip]>>,
                       <<"--initial-advertise-peer-urls", "=">> \o PeerURL(ip),
                       <<"--initial-cluster", "=", EtcdName[ip], "=">> \o PeerURL(ip),
                       <<"--initial-cluster", "-state", "=", "new">> >>] >>

\* config.Host
HostRec(name, memberName, ip, password, privateKey, backup) ==
    [Name |-> name, MemberName |-> memberName, Host |-> ip, Username |-> "root",
     Password |-> password, PrivateKey |-> privateKey, BackedupManifest |-> backup]

H1 == HostRec("vm1", "", "ip1", "pw", "", "/root/etcd.yaml")
H2 == HostRec("vm2", "m2", "ip2", "pw", "", "/root/etcd.yaml")
H3 == HostRec("vm3", "", "ip3", "pw", "", "/root/etcd.yaml")

\* the hosts files of the model: what json.Unmarshal yields for each
\* ("malformed" does not parse)
CfgIds == {"ok", "nobackup", "bothcreds", "dupname", "malformed", "empty", "single"}

HostsOf(id) ==
    CASE id = "ok" -> <<H1, H2, H3>>
      [] id = "nobackup" -> <<H1, [H2 EXCEPT !.BackedupManifest = ""], H3>>
      [] id = "bothcreds" -> <<H1, [H2 EXCEPT !.PrivateKey = "/root/.ssh/id_rsa"], H3>>
      [] id = "dupname" -> <<H1, H2, [H3 EXCEPT !.Name = "vm1"]>>
      [] id = "single" -> <<H1>>
      [] OTHER -> <<>>

\* ------------------------------------------------------------- the state

VARIABLES
    \* the operator's inputs
    cfgId,        \* the hosts file given with --config
    opMaster,     \* the entry the operator picks as master, at every prompt
    mode,         \* --mode of the current invocation
    \* the machines
    container,    \* [IPs -> 0..MaxCID]: ID of the running etcd container, 0 if none
    started,      \* [IPs -> manifest]: the manifest the running container was started from
    manifest,     \* [IPs -> manifest]: /etc/kubernetes/manifests/etcd.yaml, NoFile if absent
    dataDir,      \* [IPs -> BOOLEAN]: /var/lib/etcd/member exists
    members,      \* the member list held by the master's etcd
    serving,      \* machines whose etcd serves the cluster of `members` when it runs
    synced,       \* machines whose etcd has caught up with the leader
    nextCID,      \* the next container ID a kubelet hands out
    \* budgets
    faults, interrupts, runs,
    \* the program
    pc,           \* where the program is
    hosts,        \* the parsed hosts file
    master,       \* index in hosts of the selected master, 0 before the selection
    learner,      \* index in hosts of the learner of the current Add-Member
    queue,        \* mode both: indices of the hosts still to add
    loc,          \* locals of the running task
    result,       \* what the last task returned
    exitCode,     \* -1 while running
    log,          \* remote operations of the running task, in order
    feLog,        \* tasks started and finished in this invocation, in order
    touched,      \* a remote operation happened in this invocation
    retMembers,   \* the member list at the moment the last task returned
    \* ExecutionPlan.Execute on a plan of several sessions and tasks
    plan,         \* the sessions: the host's credentials and the number of tasks
    plPc,         \* "connect", "task" or "done"
    plSi,         \* index of the current session
    plTi,         \* index of the next task of the current session
    plErr,        \* what Execute returned, "" for nil
    plLog,        \* connections and task runs, in order
    \* the host-key callback and the known-hosts file
    khFile,       \* the lines of the known-hosts file
    hkPc,         \* "idle" or "prompt"
    hkArgs,       \* hostname, remote and key of the running invocation
    hkLog,        \* the finished invocations, in order
    \* Client.Upload and a reader of the remote path
    upPc,         \* where Upload is
    upLocal,      \* the local file: data and mode
    upTarget,     \* the file at remotePath
    upTmp,        \* the file at the temporary path
    upPerm,       \* what the SSH user may do at remotePath
    upSeen,       \* the contents a reader of remotePath has observed
    upRet,        \* what Upload returned, "" while it runs
    upLog,        \* the steps Upload took, in order
    \* promoteLearner
    prPc,         \* "run" or "done"
    prAttempt,    \* attempt of promoteLearner's loop
    prElapsed,    \* seconds since the CommandTask of this attempt started
    prExecs,      \* remote executions of member promote so far
    prSynced,     \* the learner is in sync with the leader
    prRet,        \* what promoteLearner returned, "" while it runs
    \* the manifest editor applied to an argument list
    edCmd,        \* the etcd container's command
    edPrev,       \* the command before the last edit
    edOp,         \* the last edit
    edPrevOp,     \* the edit before the last one
    edChanged,    \* the changed result of the last toggle
    \* the select command
    selPc,        \* "off", "loop", "printed" or "fatal"
    selN,         \* number of hosts of the hosts file
    selLog,       \* what happened on each host processed so far, in order
    selBest,      \* bestHosts: indices of hosts
    selMax,       \* maxCommitIndex
    \* member add of the learner
    adPc,         \* "off", "run", "returned" or "done"
    adElapsed,    \* seconds since CommandTask.Run started
    adExists,     \* the cluster has a member with the learner's peer URL
    adReplies,    \* what each execution of the command ended with, in order
    adOut,        \* the output CommandTask.Run returned
    adErr,        \* CommandTask.Run returned an error
    adRet,        \* what addMemberToCluster returned, then what Run does next
    \* a command task
    cmPc,         \* "off", "loop" or "done"
    cmCheck,      \* the Check of the task, NoCheck when it is nil
    cmElapsed,    \* seconds since Run started
    cmExecs,      \* number of executions of the command
    cmSlept,      \* Run has slept since the last execution
    cmLast,       \* the last execution: what client.Run returned
    cmLastErr,    \* lasterr: "" when nil
    cmRet,        \* what Run returned
    \* the single-member predicate
    smPc,         \* "off", "call" or "done"
    smIn,         \* what the member list command gave
    smOut         \* what isSingleMemberCluster returned

envVars == <<container, started, manifest, dataDir, members, serving, synced, nextCID>>
inVars == <<cfgId, opMaster>>
budVars == <<faults, interrupts, runs>>
progVars == <<pc, mode, hosts, master, learner, queue, loc, result, exitCode, log,
              feLog, touched, retMembers>>
coreVars == <<cfgId, opMaster, mode, container, started, manifest, dataDir, members,
              serving, synced, nextCID, faults, interrupts, runs, pc, hosts, master,
              learner, queue, loc, result, exitCode, log, feLog, touched, retMembers>>
planVars == <<plan, plPc, plSi, plTi, plErr, plLog>>
hkVars == <<khFile, hkPc, hkArgs, hkLog>>
upVars == <<upPc, upLocal, upTarget, upTmp, upPerm, upSeen, upRet, upLog>>
prVars == <<prPc, prAttempt, prElapsed, prExecs, prSynced, prRet>>
edVars == <<edCmd, edPrev, edOp, edPrevOp, edChanged>>
\* the components that are checked on their own, apart from a repair run
selVars == <<selPc, selN, selLog, selBest, selMax>>
adVars == <<adPc, adElapsed, adExists, adReplies, adOut, adErr, adRet>>
cmVars == <<cmPc, cmCheck, cmElapsed, cmExecs, cmSlept, cmLast, cmLastErr, cmRet>>
smVars == <<smPc, smIn, smOut>>
compVars == <<planVars, hkVars, upVars, prVars, edVars, selVars, adVars, cmVars, smVars>>
vars == <<coreVars, compVars>>

\* etcdserverpb.Member
Member(ip, named, isLearner) ==
    [ID |-> MemberIDOf[ip],
     Name |-> IF named THEN EtcdName[ip] ELSE "",
     PeerURLs |-> <<PeerURL(ip)>>,
     IsLearner |-> isLearner]

NoMember == [ID |-> 0, Name |-> "", PeerURLs |-> <<>>, IsLearner |-> FALSE]

RECURSIVE SortByID(_)
\* `member list` answers in ascending ID order
SortByID(S) ==
    IF S = {} THEN <<>>
    ELSE LET m == CHOOSE x \in S : \A y \in S : x.ID <= y.ID
         IN  <<m>> \o SortByID(S \ {m})

MemberHost(m) == extractIPFromPeerURL(m.PeerURLs[1])

\* the machine the operator picks as master
MasterIP ==
    IF opMaster <= Len(HostsOf(cfgId)) THEN HostsOf(cfgId)[opMaster].Host ELSE "ip1"

\* the etcd of machine ip runs and has joined the cluster of `members`
Joined(ip) == ip \in IPs /\ container[ip] # 0 /\ ip \in serving

\* an etcd is up (it answers its clients): it has joined and published its name
Up(ip) == Joined(ip) /\ \E m \in members : MemberHost(m) = ip /\ m.Name # ""

\* a majority of the voting members is up
Quorum ==
    LET voters == {m \in members : ~m.IsLearner}
    IN  2 * Cardinality({m \in voters : Up(MemberHost(m))}) > Cardinality(voters)

\* crictl exec <cid> etcdctl ... on machine ip reaches a live etcd
ExecOK(ip, cid) == cid # 0 /\ container[ip] = cid /\ Up(ip)

\* member list / add / remove / promote are answered
MembershipOK(ip, cid) == ExecOK(ip, cid) /\ Quorum

\* endpoint status --cluster / endpoint health --cluster: every started member answers
ClusterHealthy(ip, cid) ==
    /\ MembershipOK(ip, cid)
    /\ \A m \in members : m.Name # "" => Up(MemberHost(m))

\* endpoint status against the local endpoint only
MemberHealthy(ip, cid) == ExecOK(ip, cid)

\* -------------------------------------------------------- the environment

\* the value of the last --initial-cluster= argument of the etcd container
InitialClusterOf(m) ==
    LET i == FindContainer(m, <<"etcd">>)
        cmd == m[i].command
        ks == {k \in 1..Len(cmd) : HasPrefix(cmd[k], InitialClusterPrefix \o <<"=">>)}
    IN  IF i = 0 \/ ks = {} THEN <<>>
        ELSE LET k == CHOOSE x \in ks : \A y \in ks : y <= x
             IN  SubSeq(cmd[k], 3, Len(cmd[k]))

\* etcd accepts --initial-cluster when it names this etcd with its own peer
\* URL and its machines are those of the member list
InitialClusterFits(m, ip) ==
    LET ic == InitialClusterOf(m)
    IN  /\ \E i \in 1..Len(ic) :
              /\ ic[i] = EtcdName[ip]
              /\ SubSeq(ic, i + 1, i + 4) = <<"=">> \o PeerURL(ip)
        /\ {ic[i + 1] : i \in {j \in 1..(Len(ic) - 1) : ic[j] = "https://"}}
              = {MemberHost(x) : x \in members}

\* the kubelet of machine ip has something to do
KubeletPending(ip) ==
    manifest[ip] # started[ip] /\ (~HasEtcd(manifest[ip]) \/ nextCID <= MaxCID)

\* The kubelet of machine ip acts on a changed static-pod manifest: it stops
\* the container of the old manifest and starts one for the new manifest. A
\* file that is no pod with an etcd container (absent, empty or torn) only
\* stops the container; the stopped etcd keeps its data and its place in
\* `serving`, which Joined reads together with the running container.
\* etcd started with --force-new-cluster drops every member but its own;
\* etcd started on another machine joins the cluster if the machine is a
\* member and either holds the data of this cluster or holds no data and is
\* started with --initial-cluster-state=existing and an --initial-cluster
\* that names itself and the machines of the member list.
Kubelet(ip) ==
    /\ manifest[ip] # started[ip]
    /\ started' = [started EXCEPT ![ip] = manifest[ip]]
    /\ IF ~HasEtcd(manifest[ip])
       THEN /\ container' = [container EXCEPT ![ip] = 0]
            /\ synced' = synced \ {ip}
            /\ UNCHANGED <<nextCID, members, dataDir, serving>>
       ELSE /\ nextCID <= MaxCID
            /\ container' = [container EXCEPT ![ip] = nextCID]
            /\ nextCID' = nextCID + 1
            /\ dataDir' = [dataDir EXCEPT ![ip] = TRUE]
            /\ IF ip = MasterIP
               THEN /\ serving' = IF HasForce(manifest[ip]) THEN {ip} ELSE serving \cup {ip}
                    /\ synced' = IF HasForce(manifest[ip]) THEN {ip} ELSE synced \cup {ip}
                    /\ members' = IF HasForce(manifest[ip])
                                  THEN {Member(ip, TRUE, FALSE)}
                                  ELSE members
               ELSE LET joins == /\ \E m \in members : MemberHost(m) = ip
                                 /\ IF dataDir[ip] THEN ip \in serving
                                    ELSE /\ HasExistingState(manifest[ip])
                                         /\ InitialClusterFits(manifest[ip], ip)
                    IN  /\ serving' = IF joins THEN serving \cup {ip} ELSE serving \ {ip}
                        /\ synced' = synced \ {ip}
                        /\ UNCHANGED members
    /\ UNCHANGED <<manifest, inVars, compVars, budVars, progVars>>

\* a started learner publishes its name to the cluster
Publish(ip) ==
    /\ Joined(ip) /\ Up(MasterIP) /\ ip # MasterIP /\ Quorum
    /\ \E m \in members :
         /\ MemberHost(m) = ip /\ m.Name = ""
         /\ members' = (members \ {m}) \cup {[m EXCEPT !.Name = Member(ip, TRUE, TRUE).Name]}
    /\ UNCHANGED <<container, started, manifest, dataDir, serving, synced, nextCID,
                   inVars, compVars, budVars, progVars>>

\* a started learner catches up with the leader
CatchUp(ip) ==
    /\ Up(ip) /\ Up(MasterIP) /\ ip \notin synced
    /\ \E m \in members : MemberHost(m) = ip /\ m.Name # ""
    /\ synced' = synced \cup {ip}
    /\ UNCHANGED <<container, started, manifest, dataDir, members, serving, nextCID,
                   inVars, compVars, budVars, progVars>>

\* ----------------------------------------------------- etcd's membership

\* member add <name> --peer-urls=<url> --learner
EtcdAddOK(url) == \A m \in members : url \notin {m.PeerURLs[i] : i \in 1..Len(m.PeerURLs)}
EtcdAdd(url) ==
    members \cup {[ID |-> MemberIDOf[extractIPFromPeerURL(url)], Name |-> "",
                   PeerURLs |-> <<url>>, IsLearner |-> TRUE]}

\* member remove <hex id>
EtcdRemoveOK(hexID) == \E m \in members : m.ID = ParseHex(hexID)
EtcdRemove(hexID) == {m \in members : m.ID # ParseHex(hexID)}

\* member promote <hex id>: only a learner that is in sync with the leader
EtcdPromoteOK(hexID) ==
    \E m \in members : m.ID = ParseHex(hexID) /\ m.IsLearner /\ MemberHost(m) \in synced
EtcdPromote(hexID) ==
    {IF m.ID = ParseHex(hexID) THEN [m EXCEPT !.IsLearner = FALSE] ELSE m : m \in members}

\* ------------------------------------------------------------ the program

LocInit == [oldCID |-> 0, cid |-> 0, lcid |-> 0, pod |-> NoFile, memberID |-> <<>>,
            pass |-> 0, member |-> NoMember, attempt |-> 0, initialCluster |-> <<>>,
            cid1 |-> 0, resp1 |-> {}, removed |-> {}, decision |-> "", stage |-> ""]

NoResult == [task |-> "", ok |-> FALSE, msg |-> "", id |-> <<>>]

\* a remote operation appended to the log; an immediate repetition (a retry
\* of the same command on the same machine) is not recorded again
Logged(l, op, host) ==
    IF l # <<>> /\ l[Len(l)].op = op /\ l[Len(l)].host = host
    THEN l
    ELSE Append(l, [op |-> op, host |-> host])

\* whether the remote command of this step fails for its whole window
FaultChoices == IF faults < MaxFaults THEN {FALSE, TRUE} ELSE {FALSE}
Fault(f) == faults' = faults + (IF f THEN 1 ELSE 0) /\ UNCHANGED <<interrupts, runs>>

\* the machine of the selected master / of the current learner
M == hosts[master].Host
L == hosts[learner].Host

\* a step of the running task: new position, new locals, new log
Step(npc, nloc, nlog) ==
    /\ pc' = npc /\ loc' = nloc /\ log' = nlog
    /\ touched' = (touched \/ nlog # log)
    /\ UNCHANGED <<mode, hosts, master, learner, queue, result, exitCode, feLog, retMembers>>

\* the task returns a result to ExecutionPlan.Execute, which returns nil
ReturnOK(task, msg, id, nloc, nlog) ==
    /\ pc' = "after_" \o task
    /\ result' = [task |-> task, ok |-> TRUE, msg |-> msg, id |-> id]
    /\ retMembers' = members'
    /\ feLog' = Append(feLog, [ev |-> "ok", task |-> task,
                               host |-> IF task = "add" THEN L ELSE M])
    /\ loc' = nloc /\ log' = nlog /\ touched' = (touched \/ nlog # log)
    /\ UNCHANGED <<mode, hosts, master, learner, queue, exitCode>>

\* the task returns an error: Execute returns it and the caller ends the
\* program with log.Fatalf
ReturnErr(task, msg, nloc, nlog) ==
    /\ pc' = "exit" /\ exitCode' = 1
    /\ result' = [task |-> task, ok |-> FALSE, msg |-> msg, id |-> <<>>]
    /\ retMembers' = members'
    /\ feLog' = Append(feLog, [ev |-> "err", task |-> task,
                               host |-> IF task = "add" THEN L ELSE M])
    /\ loc' = nloc /\ log' = nlog /\ touched' = (touched \/ nlog # log)
    /\ UNCHANGED <<mode, hosts, master, learner, queue>>

\* log.Fatalf before any task ran
Fatal(msg) ==
    /\ pc' = "exit" /\ exitCode' = 1
    /\ result' = [task |-> "", ok |-> FALSE, msg |-> msg, id |-> <<>>]
    /\ UNCHANGED <<mode, master, learner, queue, loc, log, feLog, touched, retMembers>>

\* configureAuth that prefers the private key
configureAuth_keyFirst(password, privateKeyFile) ==
    IF privateKeyFile # "" THEN "publickey"
    ELSE IF password # "" THEN "password"
    ELSE "error"

\* configureAuth: a password wins over a private key; neither is an error
configureAuth(password, privateKeyFile) ==
    IF password # "" THEN "password"
    ELSE IF privateKeyFile # "" THEN "publickey"
    ELSE "error"

\* validateParams
validateParams(hs, md) ==
    IF Len(hs) = 0 THEN FALSE
    ELSE IF md = "add" /\ Len(hs) = 1 THEN FALSE
    ELSE TRUE

\* getRemainingMembers: the hosts whose Name differs from the master's, in order
\* (as indices into hs)
getRemainingMembers(hs, mi) ==
    SelectSeq([i \in 1..Len(hs) |-> i], LAMBDA i : hs[i].Name # hs[mi].Name)

\* the program is started
Invoke(md) ==
    /\ pc \in {"idle", "exit"}
    /\ runs < MaxRuns
    /\ runs' = runs + 1
    /\ mode' = md
    /\ pc' = "parse"
    /\ hosts' = <<>> /\ master' = 0 /\ learner' = 0 /\ queue' = <<>>
    /\ loc' = LocInit /\ result' = NoResult /\ exitCode' = -1
    /\ log' = <<>> /\ feLog' = <<>> /\ touched' = FALSE /\ retMembers' = {}
    /\ UNCHANGED <<envVars, inVars, compVars, faults, interrupts>>

\* the operator kills the program
Interrupt ==
    /\ pc \notin {"idle", "exit"}
    /\ interrupts < MaxInterrupts
    /\ interrupts' = interrupts + 1
    /\ pc' = "exit" /\ exitCode' = 130
    /\ UNCHANGED <<mode, hosts, master, learner, queue, loc, result, log, feLog,
                   touched, retMembers, envVars, inVars, compVars, faults, runs>>

\* NewCommandRepair: config.ParseHostFromFile, then validateParams
ParseAndValidate ==
    /\ pc = "parse"
    /\ IF cfgId = "malformed"
       THEN Fatal("failed to parse hosts file") /\ UNCHANGED hosts
       ELSE IF ~validateParams(HostsOf(cfgId), mode)
            THEN Fatal("failed to validate params") /\ hosts' = HostsOf(cfgId)
            ELSE /\ pc' = "select_master"
                 /\ hosts' = HostsOf(cfgId)
                 /\ UNCHANGED <<mode, master, learner, queue, loc, result, exitCode, log,
                                feLog, touched, retMembers>>
    /\ UNCHANGED <<envVars, inVars, compVars, budVars>>

\* mustSelectMember(hosts, ...): the operator picks the master
SelectMaster ==
    /\ pc = "select_master"
    /\ master' = opMaster
    /\ pc' = IF mode = "add" THEN "select_learner" ELSE "exec_create"
    /\ UNCHANGED <<mode, hosts, learner, queue, loc, result, exitCode, log, feLog,
                   touched, retMembers, envVars, inVars, compVars, budVars>>

\* mode add: mustSelectMember(getRemainingMembers(hosts, master), ...)
SelectLearner ==
    /\ pc = "select_learner"
    /\ LET rem == getRemainingMembers(hosts, master)
       IN  IF rem = <<>>
           THEN Fatal("No any hosts to select") /\ UNCHANGED hosts
           ELSE \E k \in 1..Len(rem) :
                  /\ learner' = rem[k]
                  /\ pc' = "exec_add"
                  /\ UNCHANGED <<mode, hosts, master, queue, loc, result, exitCode, log,
                                 feLog, touched, retMembers>>
    /\ UNCHANGED <<envVars, inVars, compVars, budVars>>

\* ExecutionPlan.Execute for the one session of the plan: ssh.NewClient to the
\* master (configureAuth, then the dial), then the task is run
Execute(task) ==
    /\ pc = "exec_" \o task
    /\ \E f \in FaultChoices :
         /\ Fault(f)
         /\ IF configureAuth(hosts[master].Password, hosts[master].PrivateKey) = "error"
            THEN /\ ~f
                 /\ Fatal("failed to configure auth") /\ UNCHANGED hosts
            ELSE /\ touched' = TRUE
                 /\ loc' = [LocInit EXCEPT !.pass = 1]
                 /\ log' = Logged(<<>>, "connect", M)
                 /\ feLog' = Append(feLog, [ev |-> IF f THEN "err" ELSE "start",
                                            task |-> task,
                                            host |-> IF task = "add" THEN L ELSE M])
                 /\ pc' = IF f THEN "exit"
                          ELSE IF task = "add" THEN "am_container" ELSE "cs_probe"
                 /\ exitCode' = IF f THEN 1 ELSE exitCode
                 /\ result' = IF f THEN [task |-> task, ok |-> FALSE,
                                          msg |-> "failed to connect", id |-> <<>>]
                               ELSE result
                 /\ UNCHANGED <<mode, hosts, master, learner, queue, retMembers>>
    /\ UNCHANGED <<envVars, inVars, compVars>>

\* mustCreateSingleMemberCluster returned
AfterCreate ==
    /\ pc = "after_create"
    /\ IF mode = "both"
       THEN /\ pc' = "both_loop"
            /\ queue' = getRemainingMembers(hosts, master)
            /\ UNCHANGED exitCode
       ELSE /\ pc' = "exit" /\ exitCode' = 0
            /\ UNCHANGED queue
    /\ UNCHANGED <<mode, hosts, master, learner, loc, result, log, feLog, touched,
                   retMembers, envVars, inVars, compVars, budVars>>

\* mode both: for i, h := range remainingHosts
BothLoop ==
    /\ pc = "both_loop"
    /\ IF queue = <<>>
       THEN /\ pc' = "exit" /\ exitCode' = 0
            /\ UNCHANGED <<queue, learner, loc>>
       ELSE /\ pc' = "exec_add"
            /\ learner' = Head(queue)
            /\ queue' = Tail(queue)
            /\ loc' = LocInit
            /\ UNCHANGED exitCode
    /\ UNCHANGED <<mode, hosts, master, result, log, feLog, touched, retMembers,
                   envVars, inVars, compVars, budVars>>

\* mustAddMemberToCluster returned
AfterAdd ==
    /\ pc = "after_add"
    /\ IF mode = "both"
       THEN pc' = "both_loop" /\ UNCHANGED exitCode
       ELSE pc' = "exit" /\ exitCode' = 0
    /\ UNCHANGED <<mode, hosts, master, learner, queue, loc, result, log, feLog,
                   touched, retMembers, envVars, inVars, compVars, budVars>>

\* ---------------------------------------------- CreateSingleMemberClusterTask

\* isSingleMemberCluster that answers with the header's member ID in every
\* case but that of one member
singleMemberAnswer_header(err, parses, ids, header) ==
    IF ~err /\ parses /\ Len(ids) = 1
    THEN [id |-> FormatDec(ids[1]), single |-> TRUE]
    ELSE [id |-> FormatDec(header), single |-> FALSE]

\* isSingleMemberCluster on what the member list command gave: err, Run
\* returned an error; parses, the output is a MemberListResponse; ids, the IDs
\* of its Members; header, its Header.MemberId
singleMemberAnswer(err, parses, ids, header) ==
    IF err THEN [id |-> <<>>, single |-> FALSE]
    ELSE IF ~parses THEN [id |-> <<>>, single |-> FALSE]
    ELSE IF Len(ids) = 1 THEN [id |-> FormatDec(ids[1]), single |-> TRUE]
    ELSE [id |-> FormatDec(header), single |-> FALSE]

\* isSingleMemberCluster(client, containerID): [id, single]; f: the command fails
isSingleMemberCluster(ip, cid, f) ==
    LET resp == SortByID(members)
    IN  singleMemberAnswer(f \/ ~MembershipOK(ip, cid), TRUE,
                           [i \in 1..Len(resp) |-> resp[i].ID], MemberIDOf[ip])

\* WaitForEtcdRunningTask.Run with OldContainerID old: the ID of a running
\* container other than old, 0 when none shows up in the window
WaitForEtcdRunning(ip, old, f) ==
    IF f \/ container[ip] = 0 \/ container[ip] = old THEN 0 ELSE container[ip]

\* A polled wait returns once its condition holds; it gives up when the
\* window passes first (a fault) or when nothing is left that could make it hold.
WaitReady(ip, old, f) ==
    \/ f
    \/ (container[ip] # 0 /\ container[ip] # old)
    \/ ~KubeletPending(ip)

\* 1. the 15 s probe for a running etcd container; a failure is only logged
CS_Probe ==
    /\ pc = "cs_probe"
    /\ UNCHANGED <<envVars, inVars, compVars>>
    /\ \E f \in FaultChoices :
         /\ Fault(f)
         /\ LET old == WaitForEtcdRunning(M, 0, f)
            IN  Step(IF old # 0 THEN "cs_a_single" ELSE "cs_b_download",
                     [loc EXCEPT !.oldCID = old], Logged(log, "crictl-ps", M))

\* 1.1 etcd is running: is it a single-member cluster?
CS_A_Single ==
    /\ pc = "cs_a_single"
    /\ UNCHANGED <<envVars, inVars, compVars>>
    /\ \E f \in FaultChoices :
         /\ Fault(f)
         /\ LET r == isSingleMemberCluster(M, loc.oldCID, f)
                nlog == Logged(log, "member-list", M)
            IN  IF ~r.single
                THEN ReturnOK("create", "", r.id, [loc EXCEPT !.memberID = r.id], nlog)
                ELSE Step("cs_a_download", [loc EXCEPT !.memberID = r.id], nlog)

\* download /etc/kubernetes/manifests/etcd.yaml and drop --force-new-cluster
CS_A_Download ==
    /\ pc = "cs_a_download"
    /\ UNCHANGED <<envVars, inVars, compVars>>
    /\ \E f \in FaultChoices :
         /\ Fault(f)
         /\ IF hosts[master].BackedupManifest = ""
            THEN ~f /\ ReturnErr("create", "download", loc, log)
            ELSE LET nlog == Logged(log, "download", M)
                     u == updateForceNewClusterCommand(manifest[M], <<"etcd">>, FALSE)
                 IN  IF f \/ manifest[M] = NoFile THEN ReturnErr("create", "download", loc, nlog)
                     ELSE IF manifest[M] = GarbledFile
                     THEN ReturnErr("create", "unmarshal", loc, nlog)
                     ELSE IF u.err
                     THEN ReturnErr("create", "failed to remove --force-new-cluster flag", loc, nlog)
                     ELSE Step(IF u.changed THEN "cs_a_upload" ELSE "cs_final_health",
                               [loc EXCEPT !.pod = u.pod, !.cid = loc.oldCID], nlog)

\* Client.Upload over sftp to /etc/kubernetes/manifests/etcd.yaml of machine
\* ip, one remote operation in a step: newSftp and ftp.Create, which truncates
\* the file in place (stage ""), io.Copy, which writes the bytes and may stop
\* part-way when the connection is lost (stage "created"), and remote.Chmod
\* (stage "copied"). An error of any of them is returned by the task as msg.
Upload(ip, pod, task, msg, at, next, nloc, f) ==
    LET nlog == Logged(log, "upload", ip)
    IN  IF loc.stage = ""
        THEN IF f THEN ReturnErr(task, msg, loc, nlog) /\ UNCHANGED manifest
             ELSE /\ manifest' = [manifest EXCEPT ![ip] = EmptyFile]
                  /\ Step(at, [loc EXCEPT !.stage = "created"], nlog)
        ELSE IF loc.stage = "created"
        THEN IF f
             THEN /\ \E torn \in TornFiles :
                       manifest' = [manifest EXCEPT ![ip] = torn]
                  /\ ReturnErr(task, msg, loc, nlog)
             ELSE /\ manifest' = [manifest EXCEPT ![ip] = pod]
                  /\ Step(at, [loc EXCEPT !.stage = "copied"], nlog)
        ELSE /\ UNCHANGED manifest
             /\ IF f THEN ReturnErr(task, msg, loc, nlog)
                ELSE Step(next, [nloc EXCEPT !.stage = ""], nlog)

\* client.Upload of the in-memory manifest to /etc/kubernetes/manifests/etcd.yaml
CS_Upload(at, next) ==
    /\ pc = at
    /\ UNCHANGED <<container, started, dataDir, members, serving, synced, nextCID, inVars, compVars>>
    /\ \E f \in FaultChoices :
         /\ Fault(f)
         /\ Upload(M, loc.pod, "create", "upload", at, next, loc, f)

\* CS_Wait that puts the backup manifest back when the wait fails
CS_Wait_rollback(at, next, old) ==
    /\ pc = at
    /\ UNCHANGED <<container, started, dataDir, members, serving, synced, nextCID, inVars, compVars>>
    /\ \E f \in FaultChoices :
         /\ Fault(f)
         /\ WaitReady(M, old, f)
         /\ LET new == WaitForEtcdRunning(M, old, f)
                nlog == Logged(log, "crictl-ps", M)
            IN  IF new = 0
                THEN /\ manifest' = [manifest EXCEPT ![M] = BackupPod(M)]
                     /\ ReturnErr("create", "etcd did not start", loc, nlog)
                ELSE /\ UNCHANGED manifest
                     /\ Step(next, [loc EXCEPT !.cid = new], nlog)

\* wait for a container other than `old`
CS_Wait(at, next, old) ==
    /\ pc = at
    /\ UNCHANGED <<envVars, inVars, compVars>>
    /\ \E f \in FaultChoices :
         /\ Fault(f)
         /\ WaitReady(M, old, f)
         /\ LET new == WaitForEtcdRunning(M, old, f)
                nlog == Logged(log, "crictl-ps", M)
            IN  IF new = 0
                THEN ReturnErr("create", "etcd did not start", loc, nlog)
                ELSE Step(next, [loc EXCEPT !.cid = new], nlog)

\* waitForEtcdHealthyCommandTask(client, loc.cid)
CS_Health(at, next) ==
    /\ pc = at
    /\ UNCHANGED <<envVars, inVars, compVars>>
    /\ \E f \in FaultChoices :
         /\ Fault(f)
         /\ LET nlog == Logged(log, "endpoint-health", M)
            IN  IF f \/ ~ClusterHealthy(M, loc.cid)
                THEN ReturnErr("create", "etcd health check failed", loc, nlog)
                ELSE Step(next, loc, nlog)

\* the last step of every branch: ensure it is a single-member cluster
CS_FinalSingle ==
    /\ pc = "cs_final_single"
    /\ UNCHANGED <<envVars, inVars, compVars>>
    /\ \E f \in FaultChoices :
         /\ Fault(f)
         /\ LET r == isSingleMemberCluster(M, loc.cid, f)
                nlog == Logged(log, "member-list", M)
            IN  IF ~r.single
                THEN ReturnErr("create", "failed to create a single-member cluster", loc, nlog)
                ELSE ReturnOK("create", "", r.id, [loc EXCEPT !.memberID = r.id], nlog)

\* etcd is not running: download the backup manifest and add --force-new-cluster
CS_B_Download ==
    /\ pc = "cs_b_download"
    /\ UNCHANGED <<envVars, inVars, compVars>>
    /\ \E f \in FaultChoices :
         /\ Fault(f)
         /\ IF hosts[master].BackedupManifest = ""
            THEN ~f /\ ReturnErr("create", "failed to download backup manifest", loc, log)
            ELSE LET nlog == Logged(log, "download", M)
                     u == updateForceNewClusterCommand(BackupPod(M), <<"etcd">>, TRUE)
                 IN  IF f THEN ReturnErr("create", "failed to download backup manifest", loc, nlog)
                     ELSE IF u.err
                     THEN ReturnErr("create", "failed to add --force-new-cluster flag", loc, nlog)
                     ELSE Step("cs_b_upload1", [loc EXCEPT !.pod = u.pod], nlog)

\* CS_B_Upload2 that does not hand the ID of the forced container to the wait
CS_B_Upload2_keepOld ==
    /\ pc = "cs_b_upload2"
    /\ UNCHANGED <<container, started, dataDir, members, serving, synced, nextCID, inVars, compVars>>
    /\ \E f \in FaultChoices :
         /\ Fault(f)
         /\ LET u == updateForceNewClusterCommand(loc.pod, <<"etcd">>, FALSE)
            IN  IF u.err
                THEN /\ ~f
                     /\ ReturnErr("create", "failed to remove --force-new-cluster flag", loc, log)
                     /\ UNCHANGED manifest
                ELSE Upload(M, u.pod, "create", "upload", "cs_b_upload2", "cs_b_wait2",
                            [loc EXCEPT !.pod = u.pod, !.oldCID = 0], f)

\* remove --force-new-cluster from the in-memory manifest and upload it
CS_B_Upload2 ==
    /\ pc = "cs_b_upload2"
    /\ UNCHANGED <<container, started, dataDir, members, serving, synced, nextCID, inVars, compVars>>
    /\ \E f \in FaultChoices :
         /\ Fault(f)
         /\ LET u == updateForceNewClusterCommand(loc.pod, <<"etcd">>, FALSE)
            IN  IF u.err
                THEN /\ ~f
                     /\ ReturnErr("create", "failed to remove --force-new-cluster flag", loc, log)
                     /\ UNCHANGED manifest
                ELSE Upload(M, u.pod, "create", "upload", "cs_b_upload2", "cs_b_wait2",
                            [loc EXCEPT !.pod = u.pod, !.oldCID = loc.cid], f)

\* ------------------------------------------------------------ AddMemberTask

\* ops of the log that change the cluster or the learner's machine
MutatingOps == {"member-add", "member-remove", "member-promote", "rm-rf", "upload"}

\* Host.FetchMemberName: the configured member_name, else `hostname` on the host
FetchMemberName(h) == IF h.MemberName # "" THEN h.MemberName ELSE Hostname[h.Host]

\* the remote operations FetchMemberName adds to the log
FetchLogged(l, h) ==
    IF h.MemberName # "" THEN l
    ELSE Logged(Logged(l, "connect", h.Host), "hostname", h.Host)

\* querryMember that looks at learners only
querryMember_learnersOnly(resp, host) ==
    LET hits == {i \in 1..Len(resp) :
                   /\ resp[i].IsLearner
                   /\ \E k \in 1..Len(resp[i].PeerURLs) :
                        extractIPFromPeerURL(resp[i].PeerURLs[k]) = host}
    IN  IF hits = {} THEN NoMember
        ELSE resp[CHOOSE i \in hits : \A j \in hits : i <= j]

\* querryMember: the first member, in list order, with a peer URL on the
\* learner's host; NoMember when there is none
querryMember(resp, host) ==
    LET hits == {i \in 1..Len(resp) :
                   \E k \in 1..Len(resp[i].PeerURLs) :
                      /\ extractIPFromPeerURL(resp[i].PeerURLs[k]) # ""
                      /\ extractIPFromPeerURL(resp[i].PeerURLs[k]) = host}
    IN  IF hits = {} THEN NoMember
        ELSE resp[CHOOSE i \in hits : \A j \in hits : i <= j]

\* fetchLearnerMembers: the learners of the member list; none when the list
\* could not be retrieved (ok = FALSE)
fetchLearnerMembers(ok, resp) ==
    IF ~ok THEN <<>> ELSE SelectSeq(resp, LAMBDA m : m.IsLearner)

\* isKnownHost
isKnownHost(hs, peerURL) ==
    \E i \in 1..Len(hs) : hs[i].Host = extractIPFromPeerURL(peerURL)

\* addOrPromoteLearner without the test for a learner that never started
addOrPromoteBranch_promoteUnstarted(member) ==
    IF member = NoMember THEN "scan"
    ELSE IF ~member.IsLearner THEN "done"
    ELSE "promote"

\* addOrPromoteLearner, on the member querryMember answered: what comes next
addOrPromoteBranch(member) ==
    IF member = NoMember THEN "scan"
    ELSE IF ~member.IsLearner THEN "done"
    ELSE IF member.Name = "" THEN "start"
    ELSE "promote"

\* AddMemberTask.Run that does not look at `promoted` after the first pass
AfterPass_NoCheck(promoted, nloc, nlog) ==
    IF nloc.pass = 1
    THEN ReturnOK("add", "learner already promoted", <<>>, nloc, nlog)
    ELSE IF promoted
         THEN ReturnOK("add", "learner added and promoted successfully", <<>>, nloc, nlog)
         ELSE ReturnErr("add", "learner was not promoted after starting", nloc, nlog)

\* AddMemberTask.Run, after addOrPromoteLearner returned (promoted, nil)
AfterPass(promoted, nloc, nlog) ==
    IF nloc.pass = 1
    THEN IF promoted
         THEN ReturnOK("add", "learner already promoted", <<>>, nloc, nlog)
         ELSE Step("sl_connect", nloc, nlog)
    ELSE IF promoted
         THEN ReturnOK("add", "learner added and promoted successfully", <<>>, nloc, nlog)
         ELSE ReturnErr("add", "learner was not promoted after starting", nloc, nlog)

\* getEtcdContainerID(masterClient), at the head of addOrPromoteLearner
AM_Container ==
    /\ pc = "am_container"
    /\ UNCHANGED <<envVars, inVars, compVars>>
    /\ \E f \in FaultChoices :
         /\ Fault(f)
         /\ WaitReady(M, 0, f)
         /\ LET new == WaitForEtcdRunning(M, 0, f)
                nlog == Logged(log, "crictl-ps", M)
            IN  IF new = 0
                THEN ReturnErr("add", "failed to get etcd container ID", loc, nlog)
                ELSE Step("am_health",
                          [loc EXCEPT !.cid = new, !.attempt = 0,
                                      !.cid1 = IF loc.pass = 1 THEN new ELSE @], nlog)

\* AM_Health going on to the member query when the last attempt has failed
AM_Health_proceed ==
    /\ pc = "am_health"
    /\ UNCHANGED <<envVars, inVars, compVars>>
    /\ \E f \in FaultChoices :
         /\ Fault(f)
         /\ LET nlog == Logged(log, "endpoint-status", M)
            IN  IF (~f /\ ClusterHealthy(M, loc.cid)) \/ loc.attempt + 1 >= HealthMaxRetries
                THEN Step("am_query", [loc EXCEPT !.attempt = 0], nlog)
                ELSE Step("am_health", [loc EXCEPT !.attempt = @ + 1], nlog)

\* waitForClusterOrMemberStatusHealthy(masterClient, containerID, true): one attempt
AM_Health ==
    /\ pc = "am_health"
    /\ UNCHANGED <<envVars, inVars, compVars>>
    /\ \E f \in FaultChoices :
         /\ Fault(f)
         /\ LET nlog == Logged(log, "endpoint-status", M)
            IN  IF ~f /\ ClusterHealthy(M, loc.cid)
                THEN Step("am_query", [loc EXCEPT !.attempt = 0], nlog)
                ELSE IF loc.attempt + 1 < HealthMaxRetries
                THEN Step("am_health", [loc EXCEPT !.attempt = @ + 1], nlog)
                ELSE ReturnErr("add", "cluster health check failed", loc, nlog)

\* querryMember and the branch of addOrPromoteLearner on its answer
AM_Query ==
    /\ pc = "am_query"
    /\ UNCHANGED <<envVars, inVars, compVars>>
    /\ \E f \in FaultChoices :
         /\ Fault(f)
         /\ LET l1 == Logged(log, "member-list", M)
                resp == SortByID(members)
                member == querryMember(resp, L)
                nlog == FetchLogged(l1, hosts[learner])
                nloc == [loc EXCEPT !.member = member,
                                    !.resp1 = IF loc.pass = 1 THEN members ELSE @]
            IN  IF f \/ ~MembershipOK(M, loc.cid)
                THEN ReturnErr("add", "failed to check member existence", loc, l1)
                ELSE LET branch == addOrPromoteBranch(member)
                     IN  IF branch = "scan" THEN Step("am_scan", nloc, nlog)
                         ELSE IF branch = "done" THEN AfterPass(TRUE, nloc, nlog)
                         ELSE IF branch = "start" THEN AfterPass(FALSE, nloc, nlog)
                         ELSE Step("am_promote", nloc, nlog)

\* handleOtherLearnersIfExists, up to the removal
AM_Scan ==
    /\ pc = "am_scan"
    /\ UNCHANGED <<envVars, inVars, compVars>>
    /\ \E f \in FaultChoices :
         /\ Fault(f)
         /\ LET nlog == Logged(log, "member-list", M)
                others == fetchLearnerMembers(~f /\ MembershipOK(M, loc.cid),
                                              SortByID(members))
            IN  IF Len(others) = 0 THEN Step("am_add", loc, nlog)
                ELSE IF Len(others) > 1
                THEN ReturnErr("add", "found learners, expected 0 or 1", loc, nlog)
                ELSE IF isKnownHost(hosts, others[1].PeerURLs[1])
                THEN ReturnErr("add", "Another learner vm has been added but not started yet",
                               loc, nlog)
                ELSE Step("am_remove", [loc EXCEPT !.member = others[1]], nlog)

\* removeMember(masterClient, containerID, fmt.Sprintf("%x", ID))
AM_Remove ==
    /\ pc = "am_remove"
    /\ UNCHANGED <<container, started, manifest, dataDir, serving, synced, nextCID, inVars, compVars>>
    /\ \E f \in FaultChoices :
         /\ Fault(f)
         /\ LET nlog == Logged(log, "member-remove", M)
                id == FormatHex(loc.member.ID)
            IN  IF f \/ ~MembershipOK(M, loc.cid) \/ ~EtcdRemoveOK(id)
                THEN /\ UNCHANGED members
                     /\ ReturnErr("add", "failed to remove unknown learner", loc, nlog)
                ELSE /\ members' = EtcdRemove(id)
                     /\ Step("am_add", [loc EXCEPT !.removed = @ \cup {loc.member}], nlog)

\* addMemberToCluster(masterClient, containerID, true)
AM_Add ==
    /\ pc = "am_add"
    /\ UNCHANGED <<container, started, manifest, dataDir, serving, synced, nextCID, inVars, compVars>>
    /\ \E f \in FaultChoices :
         /\ Fault(f)
         /\ LET nlog == Logged(FetchLogged(log, hosts[learner]), "member-add", M)
            IN  IF f \/ ~MembershipOK(M, loc.cid) \/ ~EtcdAddOK(PeerURL(L))
                THEN /\ UNCHANGED members
                     /\ ReturnErr("add", "failed to add member", loc, nlog)
                ELSE /\ members' = EtcdAdd(PeerURL(L))
                     /\ AfterPass(FALSE, loc, nlog)

\* promoteLearner: one attempt
AM_Promote ==
    /\ pc = "am_promote"
    /\ UNCHANGED <<container, started, manifest, dataDir, serving, synced, nextCID, inVars, compVars>>
    /\ \E f \in FaultChoices :
         /\ Fault(f)
         /\ LET nlog == Logged(log, "member-promote", M)
                id == FormatHex(loc.member.ID)
            IN  IF ~f /\ MembershipOK(M, loc.cid) /\ EtcdPromoteOK(id)
                THEN /\ members' = EtcdPromote(id)
                     /\ AfterPass(TRUE, [loc EXCEPT !.attempt = 0], nlog)
                ELSE /\ UNCHANGED members
                     /\ IF loc.attempt + 1 < PromoteMaxRetries
                        THEN Step("am_promote", [loc EXCEPT !.attempt = @ + 1], nlog)
                        ELSE ReturnErr("add", "failed to promote learner", loc, nlog)

\* ssh.NewClient to the learner, at the head of startLearner
SL_Connect ==
    /\ pc = "sl_connect"
    /\ UNCHANGED <<envVars, inVars, compVars>>
    /\ \E f \in FaultChoices :
         /\ Fault(f)
         /\ IF configureAuth(hosts[learner].Password, hosts[learner].PrivateKey) = "error"
            THEN ~f /\ ReturnErr("add", "failed to connect to Learner node", loc, log)
            ELSE LET nlog == Logged(log, "connect", L)
                 IN  IF f THEN ReturnErr("add", "failed to connect to Learner node", loc, nlog)
                     ELSE Step("sl_check", loc, nlog)

\* SL_Check that goes on whatever crictl ps answers
SL_Check_goOn ==
    /\ pc = "sl_check"
    /\ UNCHANGED <<envVars, inVars, compVars>>
    /\ \E f \in FaultChoices :
         /\ Fault(f)
         /\ Step("sl_testdir", loc, Logged(log, "crictl-ps", L))

\* crictl ps on the learner: only an answer that names a container stops the task
SL_Check ==
    /\ pc = "sl_check"
    /\ UNCHANGED <<envVars, inVars, compVars>>
    /\ \E f \in FaultChoices :
         /\ Fault(f)
         /\ LET nlog == Logged(log, "crictl-ps", L)
            IN  IF ~f /\ container[L] # 0
                THEN ReturnErr("add", "etcd is already running", loc, nlog)
                ELSE Step("sl_testdir", loc, nlog)

\* cleanupLocalDataOnLearner: sudo test -d /var/lib/etcd/member
SL_TestDir ==
    /\ pc = "sl_testdir"
    /\ UNCHANGED <<envVars, inVars, compVars>>
    /\ \E f \in FaultChoices :
         /\ Fault(f)
         /\ LET nlog == Logged(log, "test-d", L)
            IN  IF f \/ ~dataDir[L]
                THEN Step("sl_build", loc, nlog)
                ELSE Step("sl_prompt", loc, nlog)

\* the prompt of cleanupLocalDataOnLearner taking "no" for a confirmation too
SL_Prompt_anyChoice(answers) ==
    /\ pc = "sl_prompt"
    /\ UNCHANGED <<envVars, inVars, compVars, budVars>>
    /\ \E decision \in answers :
         LET nloc == [loc EXCEPT !.decision = decision]
         IN  IF decision \in {"yes", "no"} THEN Step("sl_rm", nloc, log)
             ELSE ReturnErr("add", "no selection made", nloc, log)

\* cliui.Select(..., {"yes", "no"}): the operator's answer, or no selection
SL_Prompt(answers) ==
    /\ pc = "sl_prompt"
    /\ UNCHANGED <<envVars, inVars, compVars, budVars>>
    /\ \E decision \in answers :
         LET nloc == [loc EXCEPT !.decision = decision]
         IN  IF decision = "yes" THEN Step("sl_rm", nloc, log)
             ELSE IF decision = "no"
             THEN ReturnErr("add", "user did not confirm data cleanup", nloc, log)
             ELSE ReturnErr("add", "no selection made", nloc, log)

\* sudo -i rm -rf /var/lib/etcd/member
SL_Rm ==
    /\ pc = "sl_rm"
    /\ UNCHANGED <<container, started, manifest, members, serving, synced, nextCID, inVars, compVars>>
    /\ \E f \in FaultChoices :
         /\ Fault(f)
         /\ LET nlog == Logged(log, "rm-rf", L)
            IN  IF f
                THEN ReturnErr("add", "failed to remove directory", loc, nlog)
                     /\ UNCHANGED dataDir
                ELSE /\ dataDir' = [dataDir EXCEPT ![L] = FALSE]
                     /\ Step("sl_build", loc, nlog)

\* buildInitialClusterString: getEtcdContainerID(masterClient)
SL_Build ==
    /\ pc = "sl_build"
    /\ UNCHANGED <<envVars, inVars, compVars>>
    /\ \E f \in FaultChoices :
         /\ Fault(f)
         /\ WaitReady(M, 0, f)
         /\ LET new == WaitForEtcdRunning(M, 0, f)
                nlog == Logged(log, "crictl-ps", M)
            IN  IF new = 0
                THEN ReturnErr("add", "failed to build initial-cluster string", loc, nlog)
                ELSE Step("sl_members", [loc EXCEPT !.cid = new], nlog)

RECURSIVE JoinParts(_)
\* strings.Join(parts, ",")
JoinParts(parts) ==
    IF parts = <<>> THEN <<>>
    ELSE IF Len(parts) = 1 THEN parts[1]
    ELSE parts[1] \o <<",">> \o JoinParts(Tail(parts))

RECURSIVE InitialClusterParts(_, _, _)
\* the loop of buildInitialClusterString over resp.Members
InitialClusterParts(resp, learnerHost, learnerMemberName) ==
    IF resp = <<>> THEN <<>>
    ELSE LET member == Head(resp)
             rest == InitialClusterParts(Tail(resp), learnerHost, learnerMemberName)
             name == IF member.Name = "" /\ Contains(member.PeerURLs[1], learnerHost)
                     THEN learnerMemberName ELSE member.Name
         IN  IF Len(member.PeerURLs) > 0 /\ name # ""
             THEN << <<name, "=">> \o member.PeerURLs[1] >> \o rest
             ELSE rest

\* buildInitialClusterString: getMembers and the join of the parts
SL_Members ==
    /\ pc = "sl_members"
    /\ UNCHANGED <<envVars, inVars, compVars>>
    /\ \E f \in FaultChoices :
         /\ Fault(f)
         /\ LET l1 == Logged(log, "member-list", M)
                nlog == FetchLogged(l1, hosts[learner])
                parts == InitialClusterParts(SortByID(members), L,
                                             FetchMemberName(hosts[learner]))
            IN  IF f \/ ~MembershipOK(M, loc.cid)
                THEN ReturnErr("add", "failed to build initial-cluster string", loc, l1)
                ELSE IF Len(parts) = 0
                THEN ReturnErr("add", "no members found in cluster", loc, nlog)
                ELSE Step("sl_manifest", [loc EXCEPT !.initialCluster = JoinParts(parts)], nlog)

\* updateManifest(learnerClient, initialCluster, "existing")
SL_Manifest ==
    /\ pc = "sl_manifest"
    /\ UNCHANGED <<envVars, inVars, compVars>>
    /\ \E f \in FaultChoices :
         /\ Fault(f)
         /\ IF hosts[learner].BackedupManifest = ""
            THEN ~f /\ ReturnErr("add", "backup manifest path not provided in hosts.json",
                                 loc, log)
            ELSE LET nlog == Logged(log, "download", L)
                     u == updateEtcdManifestForExistingCluster(BackupPod(L), loc.initialCluster,
                                                               <<"existing">>)
                 IN  IF f THEN ReturnErr("add", "failed to download manifest", loc, nlog)
                     ELSE IF u.err THEN ReturnErr("add", "failed to update manifest", loc, nlog)
                     ELSE Step("sl_upload", [loc EXCEPT !.pod = u.pod], nlog)

\* learnerClient.Upload(localEtcdPath, "/etc/kubernetes/manifests/etcd.yaml")
SL_Upload ==
    /\ pc = "sl_upload"
    /\ UNCHANGED <<container, started, dataDir, members, serving, synced, nextCID, inVars, compVars>>
    /\ \E f \in FaultChoices :
         /\ Fault(f)
         /\ Upload(L, loc.pod, "add", "failed to upload manifest", "sl_upload", "sl_cid",
                   loc, f)

\* getEtcdContainerID(learnerClient)
SL_CID ==
    /\ pc = "sl_cid"
    /\ UNCHANGED <<envVars, inVars, compVars>>
    /\ \E f \in FaultChoices :
         /\ Fault(f)
         /\ WaitReady(L, 0, f)
         /\ LET new == WaitForEtcdRunning(L, 0, f)
                nlog == Logged(log, "crictl-ps", L)
            IN  IF new = 0
                THEN ReturnErr("add", "etcd container did not start", loc, nlog)
                ELSE Step("sl_health", [loc EXCEPT !.lcid = new, !.attempt = 0], nlog)

\* waitForClusterOrMemberStatusHealthy(learnerClient, containerID, false): one
\* attempt; when healthy, Run goes on to the second addOrPromoteLearner
SL_Health ==
    /\ pc = "sl_health"
    /\ UNCHANGED <<envVars, inVars, compVars>>
    /\ \E f \in FaultChoices :
         /\ Fault(f)
         /\ LET nlog == Logged(log, "endpoint-status", L)
            IN  IF ~f /\ MemberHealthy(L, loc.lcid)
                THEN Step("am_container", [loc EXCEPT !.attempt = 0, !.pass = 2], nlog)
                ELSE IF loc.attempt + 1 < HealthMaxRetries
                THEN Step("sl_health", [loc EXCEPT !.attempt = @ + 1], nlog)
                ELSE ReturnErr("add", "learner health status check failed", loc, nlog)

\* the steps of AddMemberTask.Run; answers: what the operator may answer
AddNext(answers) ==
    \/ AM_Container
    \/ AM_Health
    \/ AM_Query
    \/ AM_Scan
    \/ AM_Remove
    \/ AM_Add
    \/ AM_Promote
    \/ SL_Connect
    \/ SL_Check
    \/ SL_TestDir
    \/ SL_Prompt(answers)
    \/ SL_Rm
    \/ SL_Build
    \/ SL_Members
    \/ SL_Manifest
    \/ SL_Upload
    \/ SL_CID
    \/ SL_Health

CreateNext ==
    \/ CS_Probe
    \/ CS_A_Single
    \/ CS_A_Download
    \/ CS_Upload("cs_a_upload", "cs_a_wait")
    \/ CS_Wait("cs_a_wait", "cs_final_health", loc.oldCID)
    \/ CS_B_Download
    \/ CS_Upload("cs_b_upload1", "cs_b_wait1")
    \/ CS_Wait("cs_b_wait1", "cs_b_health1", 0)
    \/ CS_Health("cs_b_health1", "cs_b_upload2")
    \/ CS_B_Upload2
    \/ CS_Wait("cs_b_wait2", "cs_final_health", loc.oldCID)
    \/ CS_Health("cs_final_health", "cs_final_single")
    \/ CS_FinalSingle

EnvNext == \E ip \in IPs : Kubelet(ip) \/ Publish(ip) \/ CatchUp(ip)

FrontNext ==
    \/ \E md \in {"add", "create", "both"} : Invoke(md)
    \/ ParseAndValidate
    \/ SelectMaster
    \/ SelectLearner
    \/ Execute("create")
    \/ Execute("add")
    \/ AfterCreate
    \/ BothLoop
    \/ AfterAdd

\* the operator starts Add-Member again on the same master and learner
Reinvoke ==
    /\ pc = "exit"
    /\ pc' = "exec_add"
    /\ loc' = LocInit /\ result' = NoResult /\ exitCode' = -1
    /\ log' = <<>> /\ feLog' = <<>> /\ touched' = FALSE /\ retMembers' = {}
    /\ UNCHANGED <<mode, hosts, master, learner, queue, envVars, inVars, compVars, budVars>>

\* ------------------------------------------------------ the start states

\* what the operator may answer at the data-directory prompt
Answers == {"yes", "no", "cancel"}

\* the state of a machine other than the master in a recovered cluster
OtherStates == {"absent", "voter", "unstarted"}

\* The cluster lost quorum: the three old members are in the member list of
\* every data directory, no etcd runs and the manifests were moved away.
EnvLost ==
    /\ members = {Member(ip, TRUE, FALSE) : ip \in IPs}
    /\ container = [ip \in IPs |-> 0]
    /\ started = [ip \in IPs |-> NoFile]
    /\ manifest = [ip \in IPs |-> NoFile]
    /\ dataDir = [ip \in IPs |-> TRUE]
    /\ serving = {} /\ synced = {}
    /\ nextCID = 1

\* The master runs (container 1): from its plain manifest, or from the one with
\* --force-new-cluster; every other machine is in state st[ip]; unknown: a
\* machine of no hosts file was added as a learner.
EnvRecovered(force, st, unknown) ==
    LET voters == {ip \in IPs : ip = MasterIP \/ st[ip] = "voter"}
        pod == IF force
               THEN updateForceNewClusterCommand(BackupPod(MasterIP), <<"etcd">>, TRUE).pod
               ELSE BackupPod(MasterIP)
    IN  /\ members = {Member(ip, TRUE, FALSE) : ip \in voters}
                     \cup {Member(ip, FALSE, TRUE) :
                             ip \in {x \in IPs \ {MasterIP} : st[x] = "unstarted"}}
                     \cup (IF unknown THEN {Member(UnknownIP, FALSE, TRUE)} ELSE {})
        /\ container = [ip \in IPs |-> IF ip = MasterIP THEN 1
                                       ELSE IF ip \in voters
                                       THEN 1 + Cardinality({x \in voters \ {MasterIP} :
                                                               MemberIDOf[x] <= MemberIDOf[ip]})
                                       ELSE 0]
        /\ started = [ip \in IPs |-> IF ip = MasterIP THEN pod
                                     ELSE IF ip \in voters THEN BackupPod(ip) ELSE NoFile]
        /\ manifest = started
        /\ dataDir = [ip \in IPs |-> TRUE]
        /\ serving = voters /\ synced = voters
        /\ nextCID = Cardinality(voters) + 1

\* the components at rest, while a repair run is checked
PlanIdle ==
    plan = <<>> /\ plPc = "off" /\ plSi = 0 /\ plTi = 0 /\ plErr = "" /\ plLog = <<>>
HkIdle == khFile = <<>> /\ hkPc = "off" /\ hkArgs = <<>> /\ hkLog = <<>>
UpIdle ==
    /\ upPc = "off" /\ upLocal = <<>> /\ upTarget = <<>> /\ upTmp = <<>>
    /\ upPerm = "" /\ upSeen = {} /\ upRet = "" /\ upLog = <<>>
PrIdle ==
    /\ prPc = "off" /\ prAttempt = 0 /\ prElapsed = 0 /\ prExecs = 0
    /\ prSynced = FALSE /\ prRet = ""
SelIdle == selPc = "off" /\ selN = 0 /\ selLog = <<>> /\ selBest = <<>> /\ selMax = 0
NoAddReturn == [id |-> 0, err |-> "", next |-> ""]
\* a nil *Check
NoCheck == [set |-> FALSE, ExpectedExitCode |-> 0, ExpectedOutput |-> "",
            NotExpectedOutput |-> "", TimeoutSec |-> 0, RetryIntervalSec |-> 0]
NoExec == [transport |-> FALSE, exit |-> 0, out |-> <<>>]
NoRun == [out |-> <<>>, err |-> ""]
NoList == [err |-> FALSE, parses |-> TRUE, ids |-> <<>>, header |-> 0]
NoAnswer == [id |-> <<>>, single |-> FALSE]
SmIdle == smPc = "off" /\ smIn = NoList /\ smOut = NoAnswer
CmIdle ==
    /\ cmPc = "off" /\ cmCheck = NoCheck /\ cmElapsed = 0 /\ cmExecs = 0
    /\ cmSlept = FALSE /\ cmLast = NoExec /\ cmLastErr = "" /\ cmRet = NoRun
AdIdle ==
    /\ adPc = "off" /\ adElapsed = 0 /\ adExists = FALSE /\ adReplies = <<>>
    /\ adOut = <<>> /\ adErr = FALSE /\ adRet = NoAddReturn

EdIdle ==
    /\ edCmd = <<>> /\ edPrev = <<>> /\ edOp = "off"
    /\ edPrevOp = "off" /\ edChanged = FALSE

ProgramIdle ==
    /\ pc = "idle" /\ mode = "" /\ hosts = <<>> /\ master = 0 /\ learner = 0
    /\ queue = <<>> /\ loc = LocInit /\ result = NoResult /\ exitCode = -1
    /\ log = <<>> /\ feLog = <<>> /\ touched = FALSE /\ retMembers = {}
    /\ faults = 0 /\ interrupts = 0 /\ runs = 0

Init ==
    /\ cfgId \in CfgIds
    /\ opMaster \in {i \in {1, 2} : i <= Len(HostsOf(cfgId)) \/ i = 1}
    /\ \/ EnvLost
       \/ \E force \in BOOLEAN, unknown \in BOOLEAN, st \in [IPs -> OtherStates] :
            EnvRecovered(force, st, unknown)
    /\ ProgramIdle
    /\ PlanIdle /\ HkIdle /\ UpIdle /\ PrIdle /\ EdIdle /\ SelIdle /\ AdIdle /\ CmIdle /\ SmIdle

Next ==
    \/ FrontNext
    \/ CreateNext
    \/ AddNext(Answers)
    \/ EnvNext

Spec == Init /\ [][Next]_vars

\* Add-Member on a healthy master, started again whenever it ended; the
\* operator may kill it, confirms the prompt, and no remote command fails.
InitResume ==
    /\ cfgId = "ok"
    /\ opMaster \in {1, 2}
    /\ \E unknown \in BOOLEAN, st \in [IPs -> {"absent", "voter"}] :
         EnvRecovered(FALSE, st, unknown)
    /\ pc = "exec_add" /\ mode = "add" /\ hosts = HostsOf(cfgId) /\ master = opMaster
    /\ learner \in {i \in 1..Len(hosts) : Member(hosts[i].Host, TRUE, FALSE) \notin members}
    /\ queue = <<>> /\ loc = LocInit /\ result = NoResult /\ exitCode = -1
    /\ log = <<>> /\ feLog = <<>> /\ touched = FALSE /\ retMembers = {}
    /\ faults = MaxFaults /\ interrupts = 0 /\ runs = MaxRuns
    /\ PlanIdle /\ HkIdle /\ UpIdle /\ PrIdle /\ EdIdle /\ SelIdle /\ AdIdle /\ CmIdle /\ SmIdle

ProgResume ==
    \/ Execute("add")
    \/ AddNext({"yes"})
    \/ AfterAdd
    \/ Reinvoke

NextResume ==
    \/ ProgResume
    \/ Interrupt
    \/ EnvNext

SpecResume ==
    /\ InitResume /\ [][NextResume]_vars
    /\ WF_vars(ProgResume)
    /\ \A ip \in IPs : WF_vars(Kubelet(ip)) /\ WF_vars(Publish(ip)) /\ WF_vars(CatchUp(ip))

\* ------------------------------------------------------------- the claims

\* the operations of a log
Ops(l) == {l[i].op : i \in 1..Len(l)}

HasOp(l, op, host) == \E i \in 1..Len(l) : l[i].op = op /\ l[i].host = host

\* the members of a list that have a peer URL on the machine host
HostMembers(S, host) ==
    {m \in S : \E k \in 1..Len(m.PeerURLs) : extractIPFromPeerURL(m.PeerURLs[k]) = host}

LearnersOf(S) == {m \in S : m.IsLearner}

\* the member list answered to the first query of the running Add-Member
\* showed the learner's machine as a voter / as a learner that never started
SeenVoter == learner # 0 /\ \E m \in HostMembers(loc.resp1, L) : ~m.IsLearner
SeenUnstarted ==
    learner # 0 /\ \E m \in HostMembers(loc.resp1, L) : m.IsLearner /\ m.Name = ""

\* ... or did not show the learner's machine at all
SeenAbsent == learner # 0 /\ loc.resp1 # {} /\ HostMembers(loc.resp1, L) = {}

\* C1: whenever AddMemberTask.Run returns success for learner L, the member
\* list at that moment holds exactly one member with a peer URL on L's
\* machine, and that member is a voter.
C1_AddSuccessMeansVoter ==
    pc = "after_add" =>
        LET hm == HostMembers(retMembers, L)
        IN  /\ result.task = "add" /\ result.ok
            /\ Cardinality(hm) = 1
            /\ \A m \in hm : ~m.IsLearner

\* Add-Member added, started and promoted a learner and returned success
C1_Witness ==
    /\ pc = "after_add"
    /\ result.msg = "learner added and promoted successfully"
    /\ HasOp(log, "member-add", M)
    /\ \E m \in HostMembers(members, L) : ~m.IsLearner

\* C2: whenever CreateSingleMemberClusterTask.Run returns success, the member
\* list of the host holds exactly one member, on every success path.
C2_CreateSuccessSingleMember ==
    pc = "after_create" => Cardinality(retMembers) = 1

\* C3: whenever Create-Single-Member returns success on a host where an etcd
\* container runs, the manifest on that host has no argument beginning with
\* --force-new-cluster.
C3_CreateSuccessNoForceFlag ==
    (pc = "after_create" /\ container[M] # 0) => ~HasForce(manifest[M])

\* C5: if the first member query of Add-Member shows the target as a voter,
\* the task returns "learner already promoted" at once: it has executed no
\* member add, remove or promote, deleted and uploaded nothing on the target,
\* and the member list at the return is the one the query saw.
C5_VoterIsNoOp ==
    SeenVoter =>
        /\ pc \in {"after_add", "both_loop", "exit"}
        /\ result = [task |-> "add", ok |-> TRUE, msg |-> "learner already promoted",
                     id |-> <<>>]
        /\ Ops(log) \cap MutatingOps = {}
        /\ \A i \in 1..Len(log) : log[i].host = L => log[i].op \in {"connect", "hostname"}
        /\ retMembers = loc.resp1

\* Add-Member returned for a target that was a voter already
C5_Witness ==
    /\ SeenVoter
    /\ pc = "after_add"
    /\ result.msg = "learner already promoted"
    /\ HasOp(log, "member-list", M)

\* C6: if the first member query of Add-Member shows the target as a learner
\* with an empty Name, then (the master's etcd not being restarted meanwhile)
\* the task executes no member add, promotes only after start-learner
\* uploaded the learner's manifest, and when it returns success the target is
\* a voter in the member list.
C6_UnstartedLearnerIsStartedThenPromoted ==
    (SeenUnstarted /\ container[M] = loc.cid1) =>
        /\ "member-add" \notin Ops(log)
        /\ \A j \in 1..Len(log) :
             log[j].op = "member-promote" =>
                \E i \in 1..(j - 1) : log[i].op = "upload" /\ log[i].host = L
        /\ pc = "after_add" =>
              /\ result.msg = "learner added and promoted successfully"
              /\ HasOp(log, "upload", L) /\ HasOp(log, "member-promote", M)
              /\ \E m \in HostMembers(retMembers, L) : ~m.IsLearner

\* Add-Member resumed an added-but-never-started learner and returned success
C6_Witness ==
    /\ SeenUnstarted /\ container[M] = loc.cid1
    /\ pc = "after_add"
    /\ HasOp(log, "rm-rf", L) /\ HasOp(log, "member-promote", M)

\* the first query showed no target and exactly one learner, of a machine
\* that is in no hosts file
SeenUnknownOnly ==
    /\ SeenAbsent
    /\ Cardinality(LearnersOf(loc.resp1)) = 1
    /\ \A m \in LearnersOf(loc.resp1) : ~isKnownHost(hosts, m.PeerURLs[1])

\* the first query showed no target and one other learner of a configured
\* machine, or more than one other learner
SeenBlocked ==
    /\ SeenAbsent
    /\ \/ Cardinality(LearnersOf(loc.resp1)) > 1
       \/ /\ Cardinality(LearnersOf(loc.resp1)) = 1
          /\ \A m \in LearnersOf(loc.resp1) : isKnownHost(hosts, m.PeerURLs[1])

\* C7: with the target absent and exactly one, unknown, learner in the list,
\* member add is executed only after member remove of exactly that learner;
\* and nothing but a learner of an unknown machine is ever removed.
C7_UnknownLearnerRemovedBeforeAdd ==
    learner # 0 =>
        /\ \A m \in loc.removed : m.IsLearner /\ ~isKnownHost(hosts, m.PeerURLs[1])
        /\ (SeenUnknownOnly /\ "member-add" \in Ops(log)) =>
              /\ loc.removed = LearnersOf(loc.resp1)
              /\ \E i, j \in 1..Len(log) :
                   i < j /\ log[i].op = "member-remove" /\ log[j].op = "member-add"

\* C8: with the target absent and another learner of a configured machine, or
\* several other learners, in the list, Add-Member fails: it executes neither
\* member add nor member remove and touches nothing on the target.
C8_OtherLearnerBlocksAdd ==
    SeenBlocked =>
        /\ pc # "after_add"
        /\ pc = "exit" => (result.task = "add" /\ ~result.ok)
        /\ Ops(log) \cap MutatingOps = {}
        /\ \A i \in 1..Len(log) : log[i].host = L => log[i].op \in {"connect", "hostname"}

RECURSIVE AddEvents(_, _)
\* what Add-Member run once, with success, for each host of hs other than
\* the master leaves in feLog (k: the index of Head(hs) in the hosts file)
AddEvents(hs, k) ==
    IF hs = <<>> THEN <<>>
    ELSE (IF k = master THEN <<>>
          ELSE << [ev |-> "start", task |-> "add", host |-> Head(hs).Host],
                  [ev |-> "ok", task |-> "add", host |-> Head(hs).Host] >>)
         \o AddEvents(Tail(hs), k + 1)

\* mode both, as claimed: Create-Single-Member on the master, then Add-Member
\* for every configured host other than the master, in configured order
ExpectedBoth ==
    << [ev |-> "start", task |-> "create", host |-> M],
       [ev |-> "ok", task |-> "create", host |-> M] >> \o AddEvents(hosts, 1)

\* C9: in mode both, Create-Single-Member returns success before any
\* Add-Member starts; Add-Member then runs exactly once for every configured
\* host other than the master, in configured order, each after the success of
\* the one before; the first failure ends the program.
C9_BothRunsCreateThenEveryOtherHost ==
    (mode = "both" /\ master # 0) =>
        LET n == Len(feLog)
            failed == n > 0 /\ feLog[n].ev = "err"
            done == IF failed THEN n - 1 ELSE n
        IN  /\ done <= Len(ExpectedBoth)
            /\ SubSeq(feLog, 1, done) = SubSeq(ExpectedBoth, 1, done)
            /\ failed => /\ pc = "exit" /\ exitCode = 1
                         /\ n <= Len(ExpectedBoth)
                         /\ feLog[n].task = ExpectedBoth[n].task
                         /\ feLog[n].host = ExpectedBoth[n].host
            /\ (pc = "exit" /\ exitCode = 0) => feLog = ExpectedBoth

\* the hosts file has a configuration error that matters to this invocation:
\* it does not parse; a host gives both a password and a private key; the
\* master of create/both, or the learner that start-learner is to start, has
\* no backup-manifest path
ConfigError ==
    \/ cfgId = "malformed"
    \/ \E i \in 1..Len(hosts) : hosts[i].Password # "" /\ hosts[i].PrivateKey # ""
    \/ /\ master # 0 /\ mode \in {"create", "both"}
       /\ hosts[master].BackedupManifest = ""
    \/ /\ learner # 0 /\ hosts[learner].BackedupManifest = ""
       /\ result.msg = "backup manifest path not provided in hosts.json"

\* C10: a configuration error is fatal before any remote work: no SSH
\* connection, remote command, membership call, file transfer or remote
\* deletion has happened in an invocation that has such an error.
C10_ConfigErrorBeforeRemoteWork ==
    (pc # "idle" /\ ConfigError) => (~touched /\ (pc = "exit" => exitCode = 1))

\* C4: Add-Member is resumable: whenever a run was interrupted, starting it
\* again and again on the same master and learner (master healthy, prompts
\* confirmed) leads to a run that returns success with the learner a voter.
C4_Resumable ==
    (exitCode = 130) ~>
        (pc = "after_add" /\ \E m \in HostMembers(members, L) : ~m.IsLearner)

\* ============================================================ components
\* The parts below are checked on their own: the repair run above stays at
\* rest (CoreIdle) while one component takes its steps.

CoreIdle == cfgId = "ok" /\ opMaster = 1 /\ EnvLost /\ ProgramIdle

\* ----------------------------------------------- ExecutionPlan.Execute

\* Sessions of a plan, and tasks of a session.
MaxSessions == 2
MaxTasks == 2

\* what a host gives to authenticate; keyOK: its private key file can be
\* read and parsed
Creds ==
    { [Password |-> "", PrivateKey |-> "", keyOK |-> FALSE],
      [Password |-> "pw", PrivateKey |-> "", keyOK |-> FALSE],
      [Password |-> "", PrivateKey |-> "/root/.ssh/id_rsa", keyOK |-> TRUE],
      [Password |-> "", PrivateKey |-> "/root/.ssh/id_rsa", keyOK |-> FALSE],
      [Password |-> "pw", PrivateKey |-> "/root/.ssh/id_rsa", keyOK |-> TRUE],
      [Password |-> "pw", PrivateKey |-> "/root/.ssh/id_rsa", keyOK |-> FALSE] }

\* RemoteSession: a host and its tasks
Sessions == [cred : Creds, ntasks : 0..MaxTasks]

\* ExecutionPlan.Sessions
Plans == UNION {[1..n -> Sessions] : n \in 0..MaxSessions}

AuthErr == "failed to configure auth: no private key/password found to configure SSH auth"
KeyErr == "failed to configure auth: could not read private key"

\* ssh.NewClient: configureAuth, then ssh.Dial (dialOK: the dial, the host
\* key check and the handshake succeed)
NewClient(cred, dialOK) ==
    LET a == configureAuth(cred.Password, cred.PrivateKey)
    IN  IF a = "error" THEN [err |-> AuthErr, auth |-> "", dial |-> FALSE]
        ELSE IF a = "publickey" /\ ~cred.keyOK
        THEN [err |-> KeyErr, auth |-> "", dial |-> FALSE]
        ELSE [err |-> IF dialOK THEN "" ELSE "dial failed", auth |-> a, dial |-> TRUE]

PlanEvent(ev, t, auth, dial, err) ==
    [ev |-> ev, s |-> plSi, t |-> t, auth |-> auth, dial |-> dial, err |-> err]

\* Execute: ssh.NewClient for the current session
PlanConnect ==
    /\ plPc = "connect" /\ plSi <= Len(plan)
    /\ \E dialOK \in BOOLEAN :
         LET r == NewClient(plan[plSi].cred, dialOK)
         IN  /\ plLog' = Append(plLog, PlanEvent("connect", 0, r.auth, r.dial, r.err))
             /\ IF r.err # ""
                THEN plErr' = r.err /\ plPc' = "done" /\ UNCHANGED plTi
                ELSE plPc' = "task" /\ plTi' = 1 /\ UNCHANGED plErr
    /\ UNCHANGED <<plan, plSi, coreVars, smVars, cmVars, selVars, adVars, hkVars, upVars, prVars, edVars>>

\* Execute that goes on to the next task after a task failed
PlanRunTask_ContinueOnError ==
    /\ plPc = "task" /\ plTi <= plan[plSi].ntasks
    /\ \E fail \in BOOLEAN :
         /\ plLog' = Append(plLog, PlanEvent("task", plTi, "", FALSE,
                                             IF fail THEN "task failed" ELSE ""))
         /\ plErr' = IF fail THEN "task failed" ELSE plErr
         /\ plTi' = plTi + 1 /\ UNCHANGED plPc
    /\ UNCHANGED <<plan, plSi, coreVars, smVars, cmVars, selVars, adVars, hkVars, upVars, prVars, edVars>>

\* Execute: task.Run(client) for the next task of the session
PlanRunTask ==
    /\ plPc = "task" /\ plTi <= plan[plSi].ntasks
    /\ \E fail \in BOOLEAN :
         /\ plLog' = Append(plLog, PlanEvent("task", plTi, "", FALSE,
                                             IF fail THEN "task failed" ELSE ""))
         /\ IF fail
            THEN plErr' = "task failed" /\ plPc' = "done" /\ UNCHANGED plTi
            ELSE plTi' = plTi + 1 /\ UNCHANGED <<plErr, plPc>>
    /\ UNCHANGED <<plan, plSi, coreVars, smVars, cmVars, selVars, adVars, hkVars, upVars, prVars, edVars>>

\* Execute: the tasks of the session are done, on to the next session
PlanNextSession ==
    /\ plPc = "task" /\ plTi > plan[plSi].ntasks
    /\ plSi' = plSi + 1 /\ plPc' = "connect"
    /\ UNCHANGED <<plan, plTi, plErr, plLog, coreVars, smVars, cmVars, selVars, adVars, hkVars, upVars, prVars, edVars>>

\* Execute: return nil after the last session
PlanReturn ==
    /\ plPc = "connect" /\ plSi > Len(plan)
    /\ plPc' = "done"
    /\ UNCHANGED <<plan, plSi, plTi, plErr, plLog, coreVars, smVars, cmVars, selVars, adVars, hkVars, upVars, prVars, edVars>>

InitPlan ==
    /\ CoreIdle /\ SmIdle /\ CmIdle /\ SelIdle /\ AdIdle /\ HkIdle /\ UpIdle /\ PrIdle /\ EdIdle
    /\ plan \in Plans
    /\ plPc = "connect" /\ plSi = 1 /\ plTi = 0 /\ plErr = "" /\ plLog = <<>>

NextPlan ==
    \/ PlanConnect
    \/ PlanRunTask
    \/ PlanNextSession
    \/ PlanReturn

SpecPlan == InitPlan /\ [][NextPlan]_vars

\* the event that follows event e in a plan that runs to its end
PlanSuccessor(e) ==
    IF e.t < plan[e.s].ntasks THEN <<e.s, "task", e.t + 1>> ELSE <<e.s + 1, "connect", 0>>

\* C11: Execute connects the sessions in order and runs the tasks of each in
\* order, one at a time; the first failed connection or task is the last
\* thing it does, and its error is what Execute returns.
C11_ExecuteStopsAtFirstError ==
    /\ plLog # <<>> => <<plLog[1].s, plLog[1].ev, plLog[1].t>> = <<1, "connect", 0>>
    /\ \A i \in 1..(Len(plLog) - 1) :
         /\ plLog[i].err = ""
         /\ <<plLog[i + 1].s, plLog[i + 1].ev, plLog[i + 1].t>> = PlanSuccessor(plLog[i])
    /\ (plLog # <<>> /\ plLog[Len(plLog)].err # "")
         => plPc = "done" /\ plErr = plLog[Len(plLog)].err
    /\ (plPc = "done" /\ plErr = "")
         => /\ \A i \in 1..Len(plLog) : plLog[i].err = ""
            /\ \A k \in 1..Len(plan) :
                 \A t \in 0..plan[k].ntasks :
                    \E i \in 1..Len(plLog) : plLog[i].s = k /\ plLog[i].t = t
    /\ plErr # "" => plPc = "done" /\ plLog # <<>> /\ plLog[Len(plLog)].err = plErr

\* a task of the first of two sessions failed, the second was never connected
C11_Witness ==
    /\ plPc = "done" /\ plErr = "task failed"
    /\ Len(plan) = 2 /\ plan[2].ntasks > 0
    /\ plLog[Len(plLog)].s = 1 /\ plLog[Len(plLog)].t = 1 /\ plan[1].ntasks = 2

\* C18: a session whose host gives neither password nor private key fails
\* with the authentication-configuration error before any dial, Execute
\* returns that error and runs none of the session's tasks; a host that
\* gives both is authenticated by password.
C18_NoCredentialsFailBeforeDial ==
    \A i \in 1..Len(plLog) :
       plLog[i].ev = "connect" =>
          LET c == plan[plLog[i].s].cred
          IN  /\ (c.Password = "" /\ c.PrivateKey = "")
                   => /\ plLog[i].err = AuthErr /\ ~plLog[i].dial
                      /\ i = Len(plLog) /\ plPc = "done" /\ plErr = AuthErr
              /\ (c.Password # "" /\ c.PrivateKey # "" /\ plLog[i].dial)
                   => plLog[i].auth = "password"
              /\ (c.Password # "" /\ c.PrivateKey # "") => plLog[i].dial

\* the second session's host has no credentials and has tasks; the first
\* session's host gave both and an unreadable key
C18_Witness ==
    /\ plPc = "done" /\ plErr = AuthErr
    /\ Len(plan) = 2 /\ plan[2].ntasks > 0 /\ plLog[Len(plLog)].s = 2
    /\ plan[1].cred.Password # "" /\ plan[1].cred.PrivateKey # "" /\ ~plan[1].cred.keyOK
    /\ plLog[1].auth = "password"

\* ------------------------------------------------ the host-key callback

\* Invocations of the callback in one behaviour.
MaxCalls == 2

\* ssh.PublicKey: the key type and the key bytes
HostKeys ==
    { [type |-> "ssh-rsa", id |-> 1], [type |-> "ssh-rsa", id |-> 2],
      [type |-> "ssh-ed25519", id |-> 3] }

RemoteIP == "10.0.0.1"

\* the hostname and the remote address the SSH library hands to the callback;
\* port 0: the hostname string holds no port
CallArgs ==
    { [hostname |-> [host |-> h, port |-> p], remote |-> [ip |-> RemoteIP, port |-> rp],
       key |-> k] :
        h \in {"h1", RemoteIP}, p \in {0, 22, 2222}, rp \in {22, 2222}, k \in HostKeys }

\* the callback's lookupHostname: the hostname, with the remote port when it
\* holds none
LookupHostname(hostname, remote) ==
    IF hostname.port # 0 THEN hostname
    ELSE [host |-> hostname.host, port |-> remote.port]

\* knownhosts.Normalize: an address without a port is one of port 22
Normalize(a) == [host |-> a.host, port |-> IF a.port = 0 THEN 22 ELSE a.port]

\* knownhosts: the line lists the address
LineMatch(line, a) == \E k \in 1..Len(line.addrs) : line.addrs[k] = a

\* knownhosts: for each key type, the key of the first line that lists a
KnownKeys(file, a) ==
    { file[i].key : i \in { n \in 1..Len(file) :
          /\ LineMatch(file[n], a)
          /\ \A j \in 1..(n - 1) :
               LineMatch(file[j], a) => file[j].key.type # file[n].key.type } }

\* the knownhosts callback: nil ("ok"), a KeyError with no wanted key
\* ("unknown"), or a KeyError with the keys on record ("mismatch")
checkAddr(file, a, key) ==
    IF KnownKeys(file, a) = {} THEN "unknown"
    ELSE IF key \in KnownKeys(file, a) THEN "ok"
    ELSE "mismatch"

\* addHostKeyToKnownHosts: one line for the hostname and, when it differs
\* from the hostname string, the remote IP
addHostKeyToKnownHosts(file, hostname, remote, key) ==
    LET ipAddr == [host |-> remote.ip, port |-> 0]
        addresses == IF ipAddr # hostname THEN <<hostname, ipAddr>> ELSE <<hostname>>
    IN  Append(file, [addrs |-> [i \in 1..Len(addresses) |-> Normalize(addresses[i])],
                      key |-> key])

\* base64 of the SHA-256 of each key
Base64Of == <<"Ab1", "Cd2", "Ef3">>

\* getHostKeyFingerprint
getHostKeyFingerprint(key) == <<"SHA256:", Base64Of[key.id]>>

\* strings.ToLower, token by token
LowerTok(t) ==
    CASE t \in {"YES", "Yes"} -> "yes"
      [] t = "Y" -> "y"
      [] t = "SHA256:" -> "sha256:"
      [] t = "Ab1" -> "ab1"
      [] t = "Cd2" -> "cd2"
      [] t = "Ef3" -> "ef3"
      [] OTHER -> t
ToLower(s) == [i \in 1..Len(s) |-> LowerTok(s[i])]

\* bufio.Reader.ReadString('\n'): an error when the input ends without one
ReadOK(input) == input # <<>> /\ input[Len(input)] = "\n"

\* promptAndAddHostKey that compares the response as typed
acceptsResponse_asTyped(input, fingerprint) ==
    LET response == TrimSpace(input)
    IN  response = <<"yes">> \/ response = <<"y">> \/ response = fingerprint

\* promptAndAddHostKey: the response that accepts the key
acceptsResponse(input, fingerprint) ==
    LET response == TrimSpace(ToLower(input))
    IN  response = <<"yes">> \/ response = <<"y">> \/ response = ToLower(fingerprint)

CancelledErr == "host key verification cancelled by user"
ReadErr == "failed to read user input"

\* what the operator may type at the prompt: a line, or input that ends
\* without a newline
Inputs ==
    { <<"yes", "\n">>, <<"YES", "\n">>, <<" ", "Yes", " ", "\n">>, <<"y", "\n">>,
      <<"no", "\n">>, <<"\n">>, <<"yes">> }
    \cup {Append(getHostKeyFingerprint(k), "\n") : k \in HostKeys}
    \cup {Append(ToLower(getHostKeyFingerprint(k)), "\n") : k \in HostKeys}

HkEntry(look, prompted, input, err, after) ==
    [args |-> hkArgs', look |-> look, prompted |-> prompted, input |-> input,
     err |-> err, before |-> khFile, after |-> after]

\* the callback is invoked: the known-hosts file is read anew and consulted;
\* on a KeyError it goes on to promptAndAddHostKey
HK_Call(key) ==
    /\ hkPc = "idle" /\ Len(hkLog) < MaxCalls
    /\ hkArgs' = [hkArgs EXCEPT !.key = key]
    /\ LET look == checkAddr(khFile, LookupHostname(hkArgs.hostname, hkArgs.remote), key)
       IN  IF look = "ok"
           THEN /\ hkLog' = Append(hkLog, HkEntry(look, FALSE, <<>>, "", khFile))
                /\ UNCHANGED hkPc
           ELSE hkPc' = "prompt" /\ UNCHANGED hkLog
    /\ UNCHANGED <<khFile, coreVars, smVars, cmVars, selVars, adVars, planVars, upVars, prVars, edVars>>

\* promptAndAddHostKey: the operator's input is read and judged
HK_Answer(input) ==
    /\ hkPc = "prompt"
    /\ hkPc' = "idle"
    /\ hkArgs' = hkArgs
    /\ LET look == checkAddr(khFile, LookupHostname(hkArgs.hostname, hkArgs.remote),
                             hkArgs.key)
           added == addHostKeyToKnownHosts(khFile, hkArgs.hostname, hkArgs.remote,
                                           hkArgs.key)
       IN  IF ~ReadOK(input)
           THEN /\ hkLog' = Append(hkLog, HkEntry(look, TRUE, input, ReadErr, khFile))
                /\ UNCHANGED khFile
           ELSE IF ~acceptsResponse(input, getHostKeyFingerprint(hkArgs.key))
           THEN /\ hkLog' = Append(hkLog, HkEntry(look, TRUE, input, CancelledErr, khFile))
                /\ UNCHANGED khFile
           ELSE /\ hkLog' = Append(hkLog, HkEntry(look, TRUE, input, "", added))
                /\ khFile' = added
    /\ UNCHANGED <<coreVars, smVars, cmVars, selVars, adVars, planVars, upVars, prVars, edVars>>

\* the known-hosts file at the start: empty, or with the line an earlier
\* acceptance of the first key wrote
InitialFiles(a) ==
    {<<>>, addHostKeyToKnownHosts(<<>>, a.hostname, a.remote, [type |-> "ssh-rsa", id |-> 1])}

InitHostKey ==
    /\ CoreIdle /\ SmIdle /\ CmIdle /\ SelIdle /\ AdIdle /\ PlanIdle /\ UpIdle /\ PrIdle /\ EdIdle
    /\ hkArgs \in {a \in CallArgs : a.hostname.port \in {0, a.remote.port}}
    /\ khFile \in InitialFiles(hkArgs)
    /\ hkPc = "idle" /\ hkLog = <<>>

NextHostKey ==
    \/ \E k \in HostKeys : HK_Call(k)
    \/ \E input \in Inputs : HK_Answer(input)

SpecHostKey == InitHostKey /\ [][NextHostKey]_vars

\* C12: a key that differs from the key on record for the host makes the
\* callback return an error, with no prompt and no change of the file.
C12_ChangedKeyFailsWithoutPrompt ==
    /\ hkPc = "prompt"
         => checkAddr(khFile, LookupHostname(hkArgs.hostname, hkArgs.remote), hkArgs.key)
              # "mismatch"
    /\ \A i \in 1..Len(hkLog) :
         hkLog[i].look = "mismatch"
           => ~hkLog[i].prompted /\ hkLog[i].err # "" /\ hkLog[i].after = hkLog[i].before

\* the lines the operator may type that mean yes for key k
AcceptingLines(k) ==
    { <<"yes", "\n">>, <<"YES", "\n">>, <<" ", "Yes", " ", "\n">>, <<"y", "\n">>,
      Append(getHostKeyFingerprint(k), "\n"),
      Append(<<"sha256:", LowerTok(Base64Of[k.id])>>, "\n") }

\* C13: for an unknown host, a line the operator typed accepts the key only
\* when it is yes, y or the key's fingerprint, letter case and surrounding
\* white space aside; any other line makes the callback fail with "host key
\* verification cancelled" and leaves the known-hosts file as it was.
C13_OnlyYesOrFingerprintAccepts ==
    \A i \in 1..Len(hkLog) :
       (hkLog[i].look = "unknown" /\ hkLog[i].prompted /\ ReadOK(hkLog[i].input))
         => IF hkLog[i].input \in AcceptingLines(hkLog[i].args.key)
            THEN /\ hkLog[i].err = ""
                 /\ hkLog[i].after = hkLog[i].before
                      \o <<hkLog[i].after[Len(hkLog[i].after)]>>
                 /\ hkLog[i].after[Len(hkLog[i].after)].key = hkLog[i].args.key
            ELSE hkLog[i].err = CancelledErr /\ hkLog[i].after = hkLog[i].before

\* an unknown host's key was refused with "no" and then accepted with its
\* fingerprint typed in lower case
C13_Witness ==
    /\ Len(hkLog) = 2
    /\ hkLog[1].look = "unknown" /\ hkLog[1].input = <<"no", "\n">>
    /\ hkLog[1].err = CancelledErr
    /\ hkLog[2].look = "unknown" /\ hkLog[2].err = ""
    /\ hkLog[2].input = Append(ToLower(getHostKeyFingerprint(hkLog[2].args.key)), "\n")
    /\ Len(khFile) = 1

\* C14: when the callback is invoked twice with the same hostname, remote
\* address and key and the operator accepted at the first invocation, the
\* second succeeds without a prompt and appends nothing, and the file holds
\* one line for that key.
C14_AcceptanceIsIdempotent ==
    /\ \A i \in 1..(Len(hkLog) - 1) :
         (hkLog[i].args = hkLog[i + 1].args /\ hkLog[i].prompted /\ hkLog[i].err = "")
           => /\ ~hkLog[i + 1].prompted /\ hkLog[i + 1].err = ""
              /\ hkLog[i + 1].after = hkLog[i].after
              /\ Cardinality({n \in 1..Len(hkLog[i + 1].after) :
                                hkLog[i + 1].after[n].key = hkLog[i].args.key}) = 1
    /\ (hkPc = "prompt" /\ hkLog # <<>>)
         => ~(hkLog[Len(hkLog)].args = hkArgs /\ hkLog[Len(hkLog)].prompted
              /\ hkLog[Len(hkLog)].err = "")

\* -------------------------------------------------------- Client.Upload

\* a path that holds no file
Absent == [exists |-> FALSE, data |-> <<>>, mode |-> 0]
File(d, m) == [exists |-> TRUE, data |-> d, mode |-> m]

\* the local file's content, in the pieces io.Copy writes, and the content
\* the remote path holds before the upload
NewData == <<"new1", "new2">>
OldData == <<"old1", "old2">>

\* modes of the local file: 0644, 0600 and 04755
LocalModes == {420, 384, 2541}

\* os.FileMode.Perm: the nine permission bits
Perm(m) == m % 512

\* the mode of a file the SFTP server creates (0644)
CreateMode == 420

\* what the SSH user may do at remotePath: create, write and chmod ("owner");
\* write but not chmod ("writer"); nothing ("denied")
RemotePerms == {"owner", "writer", "denied"}

\* Upload returns err (nothing is deferred on this path)
UpReturn(err, step) ==
    /\ upPc' = "done" /\ upRet' = err /\ upLog' = Append(upLog, step)

UpStep(next, step) ==
    /\ upPc' = next /\ upLog' = Append(upLog, step) /\ UNCHANGED upRet

\* sftpUpload(local, remotePath): ftp.Create truncates or creates the file
U_Create ==
    /\ upPc = "create"
    /\ \E f \in BOOLEAN :
         IF f THEN UpReturn("sftp error", "create: error") /\ UNCHANGED upTarget
         ELSE IF upPerm = "denied"
         THEN UpStep("t_create", "create: permission denied") /\ UNCHANGED upTarget
         ELSE /\ upTarget' = File(<<>>, IF upTarget.exists THEN upTarget.mode
                                        ELSE CreateMode)
              /\ UpStep("copy", "create")
    /\ UNCHANGED <<upLocal, upTmp, upPerm, upSeen, coreVars, smVars, cmVars, selVars, adVars, planVars, hkVars, prVars, edVars>>

\* sftpUpload(local, remotePath): io.Copy writes the next piece
U_Copy ==
    /\ upPc = "copy"
    /\ \E f \in BOOLEAN :
         IF f THEN UpReturn("sftp error", "copy: error") /\ UNCHANGED upTarget
         ELSE /\ upTarget' = [upTarget EXCEPT
                                !.data = Append(@, upLocal.data[Len(@) + 1])]
              /\ UpStep(IF Len(upTarget.data) + 1 = Len(upLocal.data) THEN "chmod"
                        ELSE "copy", "copy")
    /\ UNCHANGED <<upLocal, upTmp, upPerm, upSeen, coreVars, smVars, cmVars, selVars, adVars, planVars, hkVars, prVars, edVars>>

\* sftpUpload(local, remotePath): remote.Chmod(mode); Upload returns nil, or
\* falls back to sudoUpload on permission denied
U_Chmod ==
    /\ upPc = "chmod"
    /\ \E f \in BOOLEAN :
         IF f THEN UpReturn("sftp error", "chmod: error") /\ UNCHANGED upTarget
         ELSE IF upPerm = "writer"
         THEN UpStep("t_create", "chmod: permission denied") /\ UNCHANGED upTarget
         ELSE /\ upTarget' = [upTarget EXCEPT !.mode = upLocal.mode]
              /\ UpReturn("ok", "chmod")
    /\ UNCHANGED <<upLocal, upTmp, upPerm, upSeen, coreVars, smVars, cmVars, selVars, adVars, planVars, hkVars, prVars, edVars>>

\* sudoUpload: sftpUpload(local, tempPath), ftp.Create
S_TCreate ==
    /\ upPc = "t_create"
    /\ \E f \in BOOLEAN :
         IF f THEN UpReturn("failed to upload to temp path", "t_create: error")
                   /\ UNCHANGED upTmp
         ELSE upTmp' = File(<<>>, CreateMode) /\ UpStep("t_copy", "t_create")
    /\ UNCHANGED <<upLocal, upTarget, upPerm, upSeen, coreVars, smVars, cmVars, selVars, adVars, planVars, hkVars, prVars,
                   edVars>>

\* sudoUpload: sftpUpload(local, tempPath), io.Copy writes the next piece
S_TCopy ==
    /\ upPc = "t_copy"
    /\ \E f \in BOOLEAN :
         IF f THEN UpReturn("failed to upload to temp path", "t_copy: error")
                   /\ UNCHANGED upTmp
         ELSE /\ upTmp' = [upTmp EXCEPT !.data = Append(@, upLocal.data[Len(@) + 1])]
              /\ UpStep(IF Len(upTmp.data) + 1 = Len(upLocal.data) THEN "t_chmod"
                        ELSE "t_copy", "t_copy")
    /\ UNCHANGED <<upLocal, upTarget, upPerm, upSeen, coreVars, smVars, cmVars, selVars, adVars, planVars, hkVars, prVars,
                   edVars>>

\* sudoUpload: sftpUpload(local, tempPath), remote.Chmod(mode); after it the
\* removal of the temporary file is deferred
S_TChmod ==
    /\ upPc = "t_chmod"
    /\ \E f \in BOOLEAN :
         IF f THEN UpReturn("failed to upload to temp path", "t_chmod: error")
                   /\ UNCHANGED upTmp
         ELSE upTmp' = [upTmp EXCEPT !.mode = upLocal.mode] /\ UpStep("mv", "t_chmod")
    /\ UNCHANGED <<upLocal, upTarget, upPerm, upSeen, coreVars, smVars, cmVars, selVars, adVars, planVars, hkVars, prVars,
                   edVars>>

\* sudoUpload: sudo mv tempPath remotePath
S_Mv ==
    /\ upPc = "mv"
    /\ \E f \in BOOLEAN :
         IF f THEN /\ upPc' = "rm" /\ upRet' = "failed to sudo mv"
                   /\ upLog' = Append(upLog, "mv: error")
                   /\ UNCHANGED <<upTarget, upTmp>>
         ELSE /\ upTarget' = upTmp /\ upTmp' = Absent
              /\ UpStep("chmod2", "mv")
    /\ UNCHANGED <<upLocal, upPerm, upSeen, coreVars, smVars, cmVars, selVars, adVars, planVars, hkVars, prVars, edVars>>

\* sudoUpload with a chmod to 0644 whatever the local mode
S_Chmod2_fixedMode ==
    /\ upPc = "chmod2"
    /\ upPc' = "rm"
    /\ \E f \in BOOLEAN :
         IF f THEN /\ upRet' = "failed to sudo chmod"
                   /\ upLog' = Append(upLog, "chmod2: error") /\ UNCHANGED upTarget
         ELSE /\ upTarget' = [upTarget EXCEPT !.mode = CreateMode]
              /\ upRet' = "ok" /\ upLog' = Append(upLog, "chmod2")
    /\ UNCHANGED <<upLocal, upTmp, upPerm, upSeen, coreVars, smVars, cmVars, selVars, adVars, planVars, hkVars, prVars, edVars>>

\* sudoUpload: sudo chmod <perm> remotePath
S_Chmod2 ==
    /\ upPc = "chmod2"
    /\ upPc' = "rm"
    /\ \E f \in BOOLEAN :
         IF f THEN /\ upRet' = "failed to sudo chmod"
                   /\ upLog' = Append(upLog, "chmod2: error") /\ UNCHANGED upTarget
         ELSE /\ upTarget' = [upTarget EXCEPT !.mode = Perm(upLocal.mode)]
              /\ upRet' = "ok" /\ upLog' = Append(upLog, "chmod2")
    /\ UNCHANGED <<upLocal, upTmp, upPerm, upSeen, coreVars, smVars, cmVars, selVars, adVars, planVars, hkVars, prVars, edVars>>

\* sudoUpload: the deferred sudo rm -f tempPath, then the return
S_Rm ==
    /\ upPc = "rm"
    /\ upPc' = "done"
    /\ \E f \in BOOLEAN :
         IF f THEN upLog' = Append(upLog, "rm: error") /\ UNCHANGED upTmp
         ELSE upLog' = Append(upLog, "rm") /\ upTmp' = Absent
    /\ UNCHANGED <<upLocal, upTarget, upPerm, upSeen, upRet, coreVars, smVars, cmVars, selVars, adVars, planVars, hkVars,
                   prVars, edVars>>

\* a reader of remotePath (the kubelet) reads the file as it is now
U_Read ==
    /\ upPc # "off"
    /\ [exists |-> upTarget.exists, data |-> upTarget.data] \notin upSeen
    /\ upSeen' = upSeen \cup {[exists |-> upTarget.exists, data |-> upTarget.data]}
    /\ UNCHANGED <<upPc, upLocal, upTarget, upTmp, upPerm, upRet, upLog, coreVars, smVars, cmVars, selVars, adVars, planVars,
                   hkVars, prVars, edVars>>

InitUpload ==
    /\ CoreIdle /\ SmIdle /\ CmIdle /\ SelIdle /\ AdIdle /\ PlanIdle /\ HkIdle /\ PrIdle /\ EdIdle
    /\ upLocal \in {File(NewData, m) : m \in LocalModes}
    /\ upTarget \in {Absent, File(OldData, 420), File(OldData, 384)}
    /\ upPerm \in RemotePerms
    /\ upTmp = Absent /\ upSeen = {} /\ upRet = "" /\ upLog = <<>>
    /\ upPc = "create"

NextUpload ==
    \/ U_Create
    \/ U_Copy
    \/ U_Chmod
    \/ S_TCreate
    \/ S_TCopy
    \/ S_TChmod
    \/ S_Mv
    \/ S_Chmod2
    \/ S_Rm
    \/ U_Read

SpecUpload == InitUpload /\ [][NextUpload]_vars

\* C15: a reader of the remote path sees the complete previous content or
\* the complete new content, never an empty or partly written file.
C15_ReaderNeverSeesPartialFile ==
    \A o \in upSeen : o.exists => o.data \in {OldData, NewData}

\* the steps of the fallback
FallbackSteps ==
    {"t_create", "t_create: error", "t_copy", "t_copy: error", "t_chmod", "t_chmod: error",
     "mv", "mv: error", "chmod2", "chmod2: error", "rm", "rm: error"}

\* C16: when Upload returns success the remote file has the local file's
\* content and permission bits, by the direct transfer or by the fallback;
\* the fallback starts only after a permission-denied of the direct transfer,
\* and any other error of the direct transfer is returned at once.
C16_UploadSuccessMeansSameContentAndBits ==
    /\ (upPc = "done" /\ upRet = "ok")
         => /\ upTarget.exists /\ upTarget.data = upLocal.data
            /\ upTarget.mode % 512 = upLocal.mode % 512
    /\ \A i \in 1..Len(upLog) :
         /\ upLog[i] \in {"create: error", "copy: error", "chmod: error"}
              => i = Len(upLog) /\ upPc = "done" /\ upRet = "sftp error"
         /\ (upLog[i] \in FallbackSteps /\ (i = 1 \/ upLog[i - 1] \notin FallbackSteps))
              => /\ i > 1
                 /\ upLog[i - 1] \in {"create: permission denied", "chmod: permission denied"}

\* Upload of a 04755 file succeeded through the fallback
C16_Witness ==
    /\ upPc = "done" /\ upRet = "ok"
    /\ \E i \in 1..Len(upLog) : upLog[i] = "mv"
    /\ upLog[1] = "create: permission denied"
    /\ upLocal.mode = 2541 /\ upTarget.mode = 493

\* C17: when Upload returns after it took the fallback, no file is left at
\* the temporary path.
C17_TempFileRemovedOnEveryExit ==
    (upPc = "done" /\ \E i \in 1..Len(upLog) : upLog[i] \in FallbackSteps)
      => ~upTmp.exists

\* ---------------------------------------------------------------------
\* Promotion of a learner: promoteLearner, execEtcdctl, CommandTask.Run
\* ---------------------------------------------------------------------

\* execEtcdctl: Check.TimeoutSec and Check.RetryIntervalSec of the command
\* task that carries every etcdctl call.
ExecTimeoutSec == 30

ExecRetryIntervalSec == 5

\* Seconds one remote execution of the command takes (time.Since(start)
\* includes it).
CmdDurations == {0, 5}

\* Outcome of one client.Run of "member promote": the member is promoted
\* (exit 0, a line of output), or the command fails (the learner is not in
\* sync with the leader, or any other error).
PromoteOutcomes == {"promoted", "failed"}

\* CommandTask.Run returns its error to promoteLearner, which counts the
\* attempt, sleeps and calls execEtcdctl again, or gives up at maxRetries.
PR_AttemptFailed ==
    /\ prAttempt' = prAttempt + 1
    /\ prElapsed' = 0
    /\ IF prAttempt + 1 < PromoteMaxRetries
       THEN prPc' = "run" /\ prRet' = prRet
       ELSE prPc' = "done" /\ prRet' = "failed to promote member after 50 attempts"

\* One pass of the loop of CommandTask.Run: client.Run executes the command
\* on the master; on success Run returns, otherwise it sleeps for the retry
\* interval and runs the command again while the timeout has not passed.
PR_Exec(out, d) ==
    /\ prPc = "run"
    /\ prElapsed < ExecTimeoutSec
    /\ out = "promoted" => prSynced
    /\ prExecs' = prExecs + 1
    /\ IF out = "promoted"
       THEN /\ prPc' = "done" /\ prRet' = "ok"
            /\ UNCHANGED <<prAttempt, prElapsed>>
       ELSE IF prElapsed + d + ExecRetryIntervalSec < ExecTimeoutSec
            THEN /\ prElapsed' = prElapsed + d + ExecRetryIntervalSec
                 /\ UNCHANGED <<prPc, prAttempt, prRet>>
            ELSE PR_AttemptFailed
    /\ UNCHANGED <<prSynced, coreVars, smVars, cmVars, selVars, adVars, planVars, hkVars, upVars, edVars>>

\* Environment: the learner catches up with the leader.
PR_CatchUp ==
    /\ prPc = "run"
    /\ ~prSynced
    /\ prSynced' = TRUE
    /\ UNCHANGED <<prPc, prAttempt, prElapsed, prExecs, prRet,
                   coreVars, smVars, cmVars, selVars, adVars, planVars, hkVars, upVars, edVars>>

InitPromote ==
    /\ CoreIdle /\ SmIdle /\ CmIdle /\ SelIdle /\ AdIdle /\ PlanIdle /\ HkIdle /\ UpIdle /\ EdIdle
    /\ prPc = "run" /\ prAttempt = 0 /\ prElapsed = 0 /\ prExecs = 0
    /\ prSynced \in BOOLEAN
    /\ prRet = ""

NextPromote ==
    \/ \E out \in PromoteOutcomes, d \in CmdDurations : PR_Exec(out, d)
    \/ PR_CatchUp

SpecPromote == InitPromote /\ [][NextPromote]_vars

\* C19: during one promotion the member promote command is executed on the
\* master at most 50 times in total, every remote execution counted, and
\* when the budget is used up the task has failed.
C19_PromoteExecutedAtMost50Times ==
    /\ prExecs <= PromoteMaxRetries
    /\ (prExecs = PromoteMaxRetries /\ prPc = "done") => prRet # ""

\* ---------------------------------------------------------------------
\* Manifest editor applied to arbitrary argument lists
\* ---------------------------------------------------------------------

MaxArgs == 3

\* Arguments an etcd container command is made of.
EditorArgs ==
    { <<"--name", "=", "m1">>,
      ForceFlag,
      ForceFlag \o <<"=", "true">>,
      InitialClusterPrefix \o <<"=", "m1=https://10.0.0.1:2380">>,
      InitialClusterStatePrefix \o <<"=", "new">>,
      InitialClusterPrefix \o <<"-token", "=", "tok">> }

RECURSIVE SeqsUpTo(_, _)
SeqsUpTo(S, n) ==
    IF n = 0 THEN {<<>>}
    ELSE LET shorter == SeqsUpTo(S, n - 1)
         IN  shorter \cup {Append(q, x) : q \in shorter, x \in S}

\* Values of the initialCluster and initialClusterState parameters.
InitialClusterValues == {<<>>, <<"m1=https://10.0.0.1:2380,m2=https://10.0.0.2:2380">>}

InitialClusterStateValues == {<<>>, <<"existing">>}

\* The pod of a manifest whose etcd container has the command cmd.
EditorPod(cmd) == <<[name |-> <<"etcd">>, command |-> cmd]>>

\* toggle_force_new_cluster
ED_Toggle(add) ==
    LET r == updateForceNewClusterCommand(EditorPod(edCmd), <<"etcd">>, add)
    IN  /\ edOp # "off"
        /\ ~r.err
        /\ edPrev' = edCmd
        /\ edCmd' = r.pod[1].command
        /\ edOp' = IF add THEN "toggle_add" ELSE "toggle_remove"
        /\ edPrevOp' = edOp
        /\ edChanged' = r.changed
        /\ UNCHANGED <<coreVars, smVars, cmVars, selVars, adVars, planVars, hkVars, upVars, prVars>>

\* rewrite_initial_cluster
ED_Rewrite(initialCluster, initialClusterState) ==
    LET r == updateEtcdManifestForExistingCluster(EditorPod(edCmd), initialCluster,
                                                  initialClusterState)
    IN  /\ edOp # "off"
        /\ ~r.err
        /\ edPrev' = edCmd
        /\ edCmd' = r.pod[1].command
        /\ edOp' = "rewrite"
        /\ edPrevOp' = edOp
        /\ edChanged' = FALSE
        /\ UNCHANGED <<coreVars, smVars, cmVars, selVars, adVars, planVars, hkVars, upVars, prVars>>

InitEditor ==
    /\ CoreIdle /\ SmIdle /\ CmIdle /\ SelIdle /\ AdIdle /\ PlanIdle /\ HkIdle /\ UpIdle /\ PrIdle
    /\ edCmd \in SeqsUpTo(EditorArgs, MaxArgs)
    /\ edPrev = edCmd
    /\ edOp = "none" /\ edPrevOp = "none" /\ edChanged = FALSE

NextEditor ==
    \/ \E add \in BOOLEAN : ED_Toggle(add)
    \/ \E ic \in InitialClusterValues, st \in InitialClusterStateValues : ED_Rewrite(ic, st)

SpecEditor == InitEditor /\ [][NextEditor]_vars

\* Number of arguments of cmd that set the flag of the given name: the name
\* alone or the name followed by "=" and a value.
FlagCount(cmd, flagName) ==
    Cardinality({i \in 1..Len(cmd) :
                   cmd[i] = flagName \/ HasPrefix(cmd[i], flagName \o <<"=">>)})

EditorInvariant(cmd) ==
    /\ FlagCount(cmd, ForceFlag) <= 1
    /\ FlagCount(cmd, InitialClusterPrefix) <= 1
    /\ FlagCount(cmd, InitialClusterStatePrefix) <= 1

\* C20 as stated: after any manifest edit applied to any argument list, the
\* list has --force-new-cluster exactly once or not at all, at most one
\* --initial-cluster argument and at most one --initial-cluster-state
\* argument.
C20_AnyEditOnAnyListLeavesEachFlagAtMostOnce ==
    edOp \in {"toggle_add", "toggle_remove", "rewrite"} => EditorInvariant(edCmd)

\* C20 amended: a toggle leaves --force-new-cluster exactly once (add) or
\* absent (remove) and does not change how often the two initial-cluster
\* flags occur; a rewrite leaves --initial-cluster and
\* --initial-cluster-state at most once each and does not change how often
\* --force-new-cluster occurs; so an argument list with each flag at most
\* once has each flag at most once after any edit.
C20_EditorMaintainsInvariant ==
    /\ edOp = "toggle_add" => FlagCount(edCmd, ForceFlag) = 1
    /\ edOp = "toggle_remove" => FlagCount(edCmd, ForceFlag) = 0
    /\ edOp \in {"toggle_add", "toggle_remove"} =>
         /\ FlagCount(edCmd, InitialClusterPrefix) = FlagCount(edPrev, InitialClusterPrefix)
         /\ FlagCount(edCmd, InitialClusterStatePrefix)
              = FlagCount(edPrev, InitialClusterStatePrefix)
    /\ edOp = "rewrite" =>
         /\ FlagCount(edCmd, InitialClusterPrefix) <= 1
         /\ FlagCount(edCmd, InitialClusterStatePrefix) <= 1
         /\ FlagCount(edCmd, ForceFlag) = FlagCount(edPrev, ForceFlag)
    /\ (edOp \in {"toggle_add", "toggle_remove", "rewrite"} /\ EditorInvariant(edPrev))
         => EditorInvariant(edCmd)

\* A toggle that adds the flag to a list that had it twice and had
\* --initial-cluster once, and leaves one of each.
C20_Witness ==
    /\ edOp = "toggle_add"
    /\ FlagCount(edPrev, ForceFlag) = 2
    /\ FlagCount(edPrev, InitialClusterPrefix) = 1
    /\ FlagCount(edCmd, ForceFlag) = 1
    /\ EditorInvariant(edCmd)

\* The two argument lists hold the same arguments the same number of times.
SameMultiset(a, b) ==
    \A x \in {a[i] : i \in 1..Len(a)} \cup {b[i] : i \in 1..Len(b)} :
        Cardinality({i \in 1..Len(a) : a[i] = x})
          = Cardinality({i \in 1..Len(b) : b[i] = x})

\* C21: toggle_force_new_cluster applied a second time with the same add
\* leaves the argument multiset of the first application and reports
\* changed = false.
C21_ToggleIsIdempotent ==
    (edOp \in {"toggle_add", "toggle_remove"} /\ edPrevOp = edOp)
      => SameMultiset(edCmd, edPrev) /\ ~edChanged

\* The flag was added twice in a row to a list that now holds it.
C21_Witness ==
    /\ edOp = "toggle_add" /\ edPrevOp = "toggle_add"
    /\ FlagCount(edCmd, ForceFlag) = 1
    /\ Len(edCmd) = MaxArgs

\* C22: toggle_force_new_cluster reports changed = true exactly when the
\* argument multiset after the edit differs from the one before it; an edit
\* that only reorders the arguments reports changed = false.
C22_ChangedIffMultisetDiffers ==
    edOp \in {"toggle_add", "toggle_remove"}
      => (edChanged <=> ~SameMultiset(edPrev, edCmd))

\* An edit that moved the flag to the end and reported no change.
C22_Witness ==
    /\ edOp = "toggle_add"
    /\ edCmd # edPrev
    /\ SameMultiset(edPrev, edCmd)
    /\ ~edChanged

\* ---------------------------------------------------------------------
\* The select command: selectCommandFunc
\* ---------------------------------------------------------------------

MaxSelHosts == 3

MaxIndex == 2

\* What happens on one host of the hosts file:
\*   "connfail"    ssh.NewClient returns an error
\*   "uploadfail"  etcd-diagnosis is not on the host and its upload fails
\*   "nodir"       the commit-index command fails (no /var/lib/etcd)
\*   "badint"      the output of the command is not an integer
\*   "read"        the commit index idx is read
SelOutcomes ==
    {[step |-> st, idx |-> 0] : st \in {"connfail", "uploadfail", "nodir", "badint"}}
      \cup {[step |-> "read", idx |-> v] : v \in 0..MaxIndex}

\* One pass of the loop over the hosts, with only the strictly greater index
\* kept
Sel_Host_strict(o) ==
    /\ selPc = "loop"
    /\ Len(selLog) < selN
    /\ selLog' = Append(selLog, o)
    /\ selPc' = IF o.step \in {"uploadfail", "badint"} THEN "fatal" ELSE "loop"
    /\ IF o.step = "read" /\ o.idx > selMax
       THEN selMax' = o.idx /\ selBest' = <<Len(selLog) + 1>>
       ELSE UNCHANGED <<selMax, selBest>>
    /\ UNCHANGED <<selN, coreVars, smVars, cmVars, adVars, planVars, hkVars, upVars, prVars, edVars>>

\* One pass of the loop over the hosts: connect, make sure etcd-diagnosis is
\* on the host, read the commit index, compare it with maxCommitIndex.
Sel_Host(o) ==
    /\ selPc = "loop"
    /\ Len(selLog) < selN
    /\ selLog' = Append(selLog, o)
    /\ selPc' = IF o.step \in {"uploadfail", "badint"} THEN "fatal" ELSE "loop"
    /\ IF o.step = "read" /\ o.idx > selMax
       THEN selMax' = o.idx /\ selBest' = <<Len(selLog) + 1>>
       ELSE IF o.step = "read" /\ o.idx = selMax
            THEN selBest' = Append(selBest, Len(selLog) + 1) /\ selMax' = selMax
            ELSE UNCHANGED <<selMax, selBest>>
    /\ UNCHANGED <<selN, coreVars, smVars, cmVars, adVars, planVars, hkVars, upVars, prVars, edVars>>

\* After the loop: the members with the highest commit index are printed.
Sel_Print ==
    /\ selPc = "loop"
    /\ Len(selLog) = selN
    /\ selPc' = "printed"
    /\ UNCHANGED <<selN, selLog, selBest, selMax,
                   coreVars, smVars, cmVars, adVars, planVars, hkVars, upVars, prVars, edVars>>

InitSelect ==
    /\ CoreIdle /\ SmIdle /\ CmIdle /\ AdIdle /\ PlanIdle /\ HkIdle /\ UpIdle /\ PrIdle /\ EdIdle
    /\ selN \in 0..MaxSelHosts
    /\ selPc = "loop" /\ selLog = <<>> /\ selBest = <<>> /\ selMax = 0

NextSelect ==
    \/ \E o \in SelOutcomes : Sel_Host(o)
    \/ Sel_Print

SpecSelect == InitSelect /\ [][NextSelect]_vars

\* Hosts whose commit index was read.
SelRead == {i \in 1..Len(selLog) : selLog[i].step = "read"}

\* Hosts whose commit index was read and is the greatest one read.
SelTop == {i \in SelRead : \A j \in SelRead : selLog[j].idx <= selLog[i].idx}

\* C23: when select has processed all hosts it reports exactly the hosts
\* whose commit index was read and equals the maximum read, with that
\* maximum; a host skipped for a failed connection or a missing data
\* directory is not reported and does not stop the processing.
C23_SelectReportsExactlyTheMaxima ==
    /\ selPc = "printed" =>
         /\ Len(selLog) = selN
         /\ {selBest[k] : k \in 1..Len(selBest)} = SelTop
         /\ Len(selBest) = Cardinality(SelTop)
         /\ \A i \in SelTop : selMax = selLog[i].idx
    /\ selPc = "fatal" => selLog[Len(selLog)].step \in {"uploadfail", "badint"}

\* Two hosts tie for a maximum above zero, behind a host that was skipped.
C23_Witness ==
    /\ selPc = "printed"
    /\ Len(selLog) = MaxSelHosts
    /\ selLog[1].step \in {"connfail", "nodir"}
    /\ Cardinality(SelTop) = 2
    /\ selMax > 0

\* ---------------------------------------------------------------------
\* Create-Single-Member, step by step
\* ---------------------------------------------------------------------

\* The remote operations of a complete run of the branch for a host without
\* a running etcd container.
BranchBOps ==
    <<"connect", "crictl-ps", "download", "upload", "crictl-ps", "endpoint-health",
      "upload", "crictl-ps", "endpoint-health", "member-list">>

\* The log is the one of Create-Single-Member, running or returned.
CreateLog ==
    \/ pc \in {"cs_probe", "cs_a_single", "cs_a_download", "cs_a_upload", "cs_a_wait",
               "cs_b_download", "cs_b_upload1", "cs_b_wait1", "cs_b_health1",
               "cs_b_upload2", "cs_b_wait2", "cs_final_health", "cs_final_single",
               "after_create"}
    \/ (pc = "exit" /\ result.task = "create")

\* Create-Single-Member took the branch for a host without a running container.
InBranchB == CreateLog /\ Len(log) >= 3 /\ log[3].op = "download"

\* Where the task stands in the branch, as the number of operations done.
BranchBPosition ==
    [cs_b_upload1 |-> 3, cs_b_wait1 |-> 4, cs_b_health1 |-> 5, cs_b_upload2 |-> 6,
     cs_b_wait2 |-> 7, cs_final_health |-> 8, cs_final_single |-> 9, after_create |-> 10]

C24_Order ==
    InBranchB =>
      /\ Len(log) <= Len(BranchBOps)
      /\ \A i \in 1..Len(log) : log[i].op = BranchBOps[i] /\ log[i].host = M
      /\ pc \in DOMAIN BranchBPosition
           => Len(log) = BranchBPosition[pc] + (IF loc.stage = "" THEN 0 ELSE 1)
      /\ loc.stage # "" => pc \in {"cs_b_upload1", "cs_b_upload2", "exit"}
      /\ (pc \in {"cs_b_upload1", "cs_b_upload2"} /\ loc.stage = "created")
           => manifest[M] = EmptyFile
      /\ \/ pc \in {"cs_b_wait1", "cs_b_health1"}
         \/ pc = "cs_b_upload1" /\ loc.stage = "copied"
         \/ pc = "cs_b_upload2" /\ loc.stage = ""
           => HasForce(manifest[M])
      /\ \/ pc \in {"cs_b_wait2", "cs_final_health", "cs_final_single", "after_create"}
         \/ pc = "cs_b_upload2" /\ loc.stage = "copied"
           => HasEtcd(manifest[M]) /\ ~HasForce(manifest[M])

C24_Step ==
    /\ (pc = "cs_b_wait1" /\ pc' = "cs_b_health1") => loc'.cid = container[M]
    /\ (pc = "cs_b_health1" /\ pc' = "cs_b_upload2" /\ faults' = 0)
         => container[M] = loc.cid /\ HasForce(started[M])
    /\ (pc = "cs_b_wait2" /\ pc' = "cs_final_health")
         => loc'.cid = container[M] /\ loc'.cid # loc.cid /\ loc.cid = loc.oldCID
    /\ (InBranchB /\ pc = "cs_final_health" /\ pc' = "cs_final_single" /\ faults' = 0)
         => container[M] = loc.cid /\ ~HasForce(started[M]) /\ loc.cid # loc.oldCID
    /\ (InBranchB /\ pc = "cs_final_single" /\ pc' = "after_create" /\ faults' = 0)
         => /\ container[M] = loc.cid /\ ~HasForce(started[M]) /\ loc.cid # loc.oldCID
            /\ Cardinality(members) = 1

\* C24: in Create-Single-Member on a host where no etcd container runs (no
\* command of the run failed for its whole window, so the probe found none
\* because there is none), the steps come in the order: upload with
\* --force-new-cluster, a container appears, health passes on the container
\* started with the flag, upload without the flag, a container with another
\* ID appears, health passes on it, member count 1 is verified on it; each
\* step starts only after the one before succeeded.
C24_BranchBStepsInOrder == [](C24_Order) /\ [][C24_Step]_vars

\* A complete run of the branch: two containers, the second one verified.
C24_Witness ==
    /\ pc = "after_create" /\ InBranchB /\ faults = 0
    /\ Len(log) = Len(BranchBOps)
    /\ loc.oldCID # 0 /\ loc.cid # loc.oldCID /\ container[M] = loc.cid
    /\ ~HasForce(manifest[M])

\* Create-Single-Member is running.
CreateRunning ==
    pc \in {"cs_probe", "cs_a_single", "cs_a_download", "cs_a_upload", "cs_a_wait",
            "cs_b_download", "cs_b_upload1", "cs_b_wait1", "cs_b_health1",
            "cs_b_upload2", "cs_b_wait2", "cs_final_health", "cs_final_single"}

C25_Step ==
    (CreateRunning /\ container[M] # 0 /\ Cardinality(members) > 1)
      => /\ manifest' = manifest
         /\ container' = container
         /\ members' = members
         /\ Ops(log') \cap {"download", "upload"} = {}
         /\ pc' = "after_create" \/ CreateRunning'

\* C25: while Create-Single-Member runs on a host whose etcd container is
\* running with more than one member in its member list, no step of the run
\* downloads or uploads a manifest, restarts a container or changes the
\* membership, and the task ends with success.
C25_MultiMemberIsLeftAlone == [][C25_Step]_vars

\* The host runs etcd as a single-member cluster from a manifest without
\* --force-new-cluster, and the run has uploaded nothing: a recovered host.
RecoveredHost ==
    /\ "upload" \notin Ops(log)
    /\ container[M] # 0 /\ started[M] = manifest[M]
    /\ members = {Member(M, TRUE, FALSE)}
    /\ manifest[M] # NoFile /\ ~HasForce(manifest[M])

C26_Step ==
    (CreateRunning /\ RecoveredHost)
      => /\ manifest' = manifest
         /\ container' = container
         /\ members' = members
         /\ "upload" \notin Ops(log')
         /\ pc' = "after_create" =>
              /\ result'.id = FormatDec(MemberIDOf[M])
              /\ loc'.cid = container[M]
              /\ [i \in 1..Len(log') |-> log'[i].op]
                   = <<"connect", "crictl-ps", "member-list", "download",
                       "endpoint-health", "member-list">>
         /\ pc' = "exit" => faults' > faults

\* C26: while Create-Single-Member runs on a host whose etcd container runs
\* as a single-member cluster and whose manifest has no --force-new-cluster,
\* no step uploads a manifest, restarts a container or changes the
\* membership; the task verifies health and member count 1 on the container
\* that was running and returns its member ID, and fails only when a
\* command failed.
C26_RecoveredHostIsLeftAlone == [][C26_Step]_vars

\* The waited steps of Create-Single-Member, and the error each returns.
WaitedSteps ==
    [cs_a_wait |-> "etcd did not start", cs_b_wait1 |-> "etcd did not start",
     cs_b_wait2 |-> "etcd did not start",
     cs_b_health1 |-> "etcd health check failed",
     cs_final_health |-> "etcd health check failed",
     cs_final_single |-> "failed to create a single-member cluster"]

\* The waited step at pc fails in the step being taken: its command failed
\* for its whole window, or what it waits for is not there.
WaitedStepFails ==
    /\ pc \in DOMAIN WaitedSteps
    /\ pc' # pc
    /\ \/ faults' > faults
       \/ pc = "cs_b_wait1" /\ container[M] = 0
       \/ pc \in {"cs_a_wait", "cs_b_wait2"} /\ container[M] \in {0, loc.oldCID}
       \/ pc \in {"cs_b_health1", "cs_final_health"} /\ ~ClusterHealthy(M, loc.cid)
       \/ pc = "cs_final_single"
            /\ (~MembershipOK(M, loc.cid) \/ Cardinality(members) # 1)

C27_Step ==
    WaitedStepFails
      => /\ pc' = "exit" /\ exitCode' = 1
         /\ result'.task = "create" /\ ~result'.ok /\ result'.msg = WaitedSteps[pc]
         /\ manifest' = manifest
         /\ Cardinality({i \in 1..Len(log') : log'[i].op = "upload"})
              = Cardinality({i \in 1..Len(log) : log[i].op = "upload"})

C27_AtExit ==
    (pc = "exit" /\ result.task = "create" /\ "upload" \in Ops(log)
       /\ result.msg \in {WaitedSteps[p] : p \in DOMAIN WaitedSteps})
      => manifest[M] = loc.pod

\* C27: when a waited step of Create-Single-Member fails (no container
\* appears or restarts, the health check fails, the member count is not 1),
\* the task returns an error, uploads nothing more, and the manifest on the
\* host stays the one last uploaded, with --force-new-cluster if that one
\* had it.
C27_FailedWaitLeavesManifest == [](C27_AtExit) /\ [][C27_Step]_vars

\* The health check on the forced instance failed: the manifest with
\* --force-new-cluster is left on the host.
C27_Witness ==
    /\ pc = "exit" /\ result.task = "create"
    /\ result.msg = "etcd health check failed"
    /\ HasForce(manifest[M]) /\ manifest[M] = loc.pod
    /\ container[M] # 0 /\ HasForce(started[M])

\* ---------------------------------------------------------------------------
\* the membership commands of etcdctl
MembershipOps == {"member-list", "member-add", "member-remove", "member-promote"}

\* the positions of addOrPromoteLearner behind its health probe
PostProbePcs == {"am_query", "am_scan", "am_remove", "am_add", "am_promote"}

RECURSIVE LastPassStart(_)
\* the index of the last container lookup on the master, with which a pass begins
LastPassStart(l) ==
    IF l = <<>> THEN 0
    ELSE IF l[Len(l)].op = "crictl-ps" /\ l[Len(l)].host = M THEN Len(l)
    ELSE LastPassStart(SubSeq(l, 1, Len(l) - 1))

\* the commands of the current pass
PassLog(l) == SubSeq(l, LastPassStart(l) + 1, Len(l))

MembershipOnMaster(l) == \E i \in 1..Len(l) : l[i].op \in MembershipOps /\ l[i].host = M

C28_State ==
    /\ pc = "am_health" => ~MembershipOnMaster(PassLog(log))
    /\ (pc = "exit" /\ result.task = "add" /\ result.msg = "cluster health check failed")
         => /\ ~MembershipOnMaster(PassLog(log))
            /\ loc.attempt + 1 = HealthMaxRetries

C28_Step ==
    /\ ((pc = "am_container" /\ pc' # pc) \/ pc = "am_health")
         => ~MembershipOnMaster(PassLog(log'))
    /\ (pc' \in PostProbePcs /\ pc \notin PostProbePcs)
         => /\ pc = "am_health" /\ pc' = "am_query"
            /\ ClusterHealthy(M, loc.cid) /\ faults' = faults
    /\ (pc = "am_health" /\ pc' # "am_health")
         => \/ pc' = "am_query"
            \/ /\ pc' = "exit" /\ result'.ok = FALSE
               /\ result'.msg = "cluster health check failed"
               /\ loc.attempt + 1 = HealthMaxRetries
    /\ (pc = "am_health" /\ pc' = "am_health" /\ loc' # loc)
         => loc'.attempt = loc.attempt + 1 /\ loc'.attempt < HealthMaxRetries

\* C28: in every add-or-promote pass no member list, add, remove or promote
\* command runs on the master before the cluster health probe of that pass has
\* succeeded, and when the probe fails on all 20 attempts the task fails with
\* none of those commands run in the pass
C28_MembershipOnlyAfterHealthy == [](C28_State) /\ [][C28_Step]_vars

C28_Witness ==
    /\ pc = "exit" /\ result.task = "add" /\ result.msg = "cluster health check failed"
    /\ loc.attempt + 1 = HealthMaxRetries
    /\ HasOp(log, "endpoint-status", M) /\ ~MembershipOnMaster(PassLog(log))

\* ---------------------------------------------------------------------------
\* start-learner has stopped because it saw an etcd container on the learner
StoppedOnRunningLearner ==
    /\ pc = "exit" /\ result.task = "add" /\ ~result.ok
    /\ result.msg = "etcd is already running"

C30_State ==
    StoppedOnRunningLearner
        => /\ log # <<>> /\ log[Len(log)] = [op |-> "crictl-ps", host |-> L]
           /\ exitCode = 1

C30_Step ==
    /\ (pc = "sl_check" /\ pc' # pc /\ container[L] # 0 /\ faults' = faults)
         => /\ StoppedOnRunningLearner'
            /\ UNCHANGED <<dataDir, manifest, container, started, members>>
    /\ (StoppedOnRunningLearner' /\ ~StoppedOnRunningLearner)
         => /\ pc = "sl_check" /\ container[L] # 0
            /\ UNCHANGED <<dataDir, manifest, container, started, members>>

\* C30: when start-learner's crictl ps answers with an etcd container on the
\* learner host, the task fails at once: it has not deleted
\* /var/lib/etcd/member nor uploaded a manifest to the learner, whose data
\* directory, manifest and container are as they were
C30_RunningLearnerStopsStart == [](C30_State) /\ [][C30_Step]_vars

C30_Witness ==
    /\ StoppedOnRunningLearner /\ container[L] # 0
    /\ log[Len(log)] = [op |-> "crictl-ps", host |-> L]
    /\ dataDir[L]

\* ---------------------------------------------------------------------------
\* the task has failed at the prompt of cleanupLocalDataOnLearner
StoppedAtPrompt ==
    /\ pc = "exit" /\ result.task = "add" /\ ~result.ok
    /\ result.msg \in {"user did not confirm data cleanup", "no selection made"}

C31_State ==
    /\ pc = "sl_rm" => loc.decision = "yes"
    /\ StoppedAtPrompt
         => /\ loc.decision \in {"no", "cancel"}
            /\ dataDir[L]
            /\ ~HasOp(log, "rm-rf", L) /\ ~HasOp(log, "upload", L)
            /\ exitCode = 1

C31_Step ==
    /\ \A ip \in IPs :
         (dataDir[ip] /\ ~dataDir'[ip])
            => /\ pc = "sl_rm" /\ ip = L /\ loc.decision = "yes"
               /\ HasOp(log', "rm-rf", L)
    /\ (pc = "sl_prompt" /\ pc' # pc)
         => /\ loc'.decision \in Answers
            /\ (loc'.decision = "yes") = (pc' = "sl_rm")
            /\ loc'.decision # "yes"
                 => /\ StoppedAtPrompt'
                    /\ UNCHANGED <<dataDir, manifest, log>>
    /\ (StoppedAtPrompt' /\ ~StoppedAtPrompt) => pc = "sl_prompt"

\* C31: the learner's /var/lib/etcd/member is deleted only after the operator
\* answered yes at the prompt of the same task; on any other answer, or when
\* the prompt is cancelled, the task fails with the directory in place and no
\* manifest uploaded to the learner
C31_DeleteOnlyOnYes == [](C31_State) /\ [][C31_Step]_vars

C31_Witness ==
    /\ StoppedAtPrompt /\ loc.decision = "no" /\ dataDir[L]
    /\ HasOp(log, "test-d", L) /\ ~HasOp(log, "upload", L)

\* ---------------------------------------------------------------------------
\* a step of Create-Single-Member that writes a manifest with
\* --force-new-cluster to the host: the io.Copy of an upload
ForceUploadStep ==
    /\ CreateRunning
    /\ manifest'[M] # manifest[M]
    /\ HasForce(manifest'[M])

\* the uploads the task has begun
UploadsBegun(l) == Cardinality({i \in 1..Len(l) : l[i].op = "upload"})

C35_Step ==
    /\ (pc = "cs_probe" /\ pc' # pc /\ container[M] # 0) => pc' = "cs_a_single"
    /\ (pc' = "cs_b_download" /\ pc # pc') => pc = "cs_probe"
    /\ ForceUploadStep
         => /\ pc = "cs_b_upload1" /\ loc.stage = "created" /\ InBranchB
            /\ UploadsBegun(log) = 1

\* C35: Create-Single-Member uploads a manifest with --force-new-cluster only
\* when no etcd container was running on the host at the initial probe (a
\* probe whose command could not be run does not lead to that upload), and at
\* most once in a run
C35_ForceUploadOnlyWithoutContainer == [][C35_Step]_vars

\* ---------------------------------------------------------------------------
\* the member list of this step of the scan for other learners is retrieved
ScanListRetrieved == faults' = faults /\ MembershipOK(M, loc.cid)

C37_Step ==
    /\ (pc = "am_scan" /\ pc' # pc /\ ~ScanListRetrieved)
         => pc' = "exit" /\ ~result'.ok /\ result'.task = "add"
    /\ (pc' = "am_add" /\ pc # pc')
         => \/ /\ pc = "am_scan" /\ ScanListRetrieved
               /\ LearnersOf(members) = {}
            \/ /\ pc = "am_remove"
               /\ LearnersOf(members) = {loc.member}
               /\ ~isKnownHost(hosts, loc.member.PeerURLs[1])
               /\ members' = members \ {loc.member}

\* C37: member add is reached only after a member list that was retrieved
\* during the scan for other learners showed no learner but one the task has
\* just removed as unknown; when the list cannot be retrieved during the scan
\* the task fails and does not go on to member add
C37_AddOnlyAfterScan == [][C37_Step]_vars

\* ---------------------------------------------------------------------------
\* a step of start-learner's upload that writes the learner's manifest: the
\* ftp.Create that truncates it or the io.Copy that fills it
LearnerUploadStep == pc = "sl_upload" /\ manifest'[L] # manifest[L]

C38_Step ==
    LearnerUploadStep
        => /\ HostMembers(members, L) # {}
           /\ HasOp(log, "test-d", L)
           /\ ~dataDir[L]
           /\ HasOp(log, "rm-rf", L) => loc.decision = "yes"

\* C38: a manifest is uploaded to the learner only while the member list has
\* a member with a peer URL on the learner's host, and only after the
\* learner's data directory was handled: it is absent, or it was deleted on
\* the operator's confirmation
C38_UploadOnlyForAddedAndCleanLearner == [][C38_Step]_vars

\* ---------------------------------------------------------------------------
\* the argument sets the flag of the given name
SetsFlag(arg, flagName) == arg = flagName \/ HasPrefix(arg, flagName \o <<"=">>)

\* the arguments of cmd other than --initial-cluster and --initial-cluster-state
OtherArguments(cmd) ==
    SelectSeq(cmd, LAMBDA a : /\ ~SetsFlag(a, InitialClusterPrefix)
                              /\ ~SetsFlag(a, InitialClusterStatePrefix))

\* C39: rewrite_initial_cluster changes only the --initial-cluster and
\* --initial-cluster-state flags: every other argument of the etcd container,
\* --initial-cluster-token for one, is kept, in its original relative order
C39_RewriteKeepsOtherArguments ==
    edOp = "rewrite" => OtherArguments(edCmd) = OtherArguments(edPrev)

\* ---------------------------------------------------------------------
\* Adding the learner: addMemberToCluster, execEtcdctl, CommandTask.Run
\* ---------------------------------------------------------------------

\* what etcdctl prints when the peer URL of member add is already a member's
PeerURLsExist == "Error: etcdserver: Peer URLs already exists"

\* what etcdctl prints, with -w json, when it has added the member
AddResponse == "MemberAddResponse"

\* One client.Run of "member add": no session ("unreachable"), the session
\* breaks after etcd has added the member ("lost"), or etcdctl exits having
\* asked etcd ("answer").
AddOutcomes == {"unreachable", "lost", "answer"}

\* CommandTask.Run after its loop: the output of the attempts is dropped
CommandTaskTimedOut == [out |-> <<>>, err |-> TRUE]

\* addMemberToCluster on what execEtcdctl returned
addMemberToCluster(out, err) ==
    IF err
    THEN IF Contains(out, PeerURLsExist)
         THEN [id |-> 0, err |-> "", next |-> ""]
         ELSE [id |-> 0, err |-> "failed to add member", next |-> ""]
    ELSE [id |-> MemberIDOf["ip3"], err |-> "", next |-> ""]

\* One pass of the loop of CommandTask.Run for "member add": on exit code 0
\* with output Run returns it; otherwise it sleeps for the retry interval and
\* runs the command again while the timeout has not passed.
AD_Exec(o, d) ==
    /\ adPc = "run"
    /\ adElapsed < ExecTimeoutSec
    /\ o = "lost" => ~adExists
    /\ LET reply == IF o # "answer" THEN o
                    ELSE IF adExists THEN PeerURLsExist ELSE AddResponse
       IN  /\ adReplies' = Append(adReplies, reply)
           /\ adExists' = (adExists \/ o \in {"lost", "answer"})
           /\ IF reply = AddResponse
              THEN /\ adPc' = "returned" /\ adOut' = <<reply>> /\ adErr' = FALSE
                   /\ UNCHANGED adElapsed
              ELSE IF adElapsed + d + ExecRetryIntervalSec < ExecTimeoutSec
              THEN /\ adElapsed' = adElapsed + d + ExecRetryIntervalSec
                   /\ UNCHANGED <<adPc, adOut, adErr>>
              ELSE /\ adPc' = "returned"
                   /\ adOut' = CommandTaskTimedOut.out /\ adErr' = CommandTaskTimedOut.err
                   /\ adElapsed' = ExecTimeoutSec
    /\ UNCHANGED <<adRet, coreVars, smVars, cmVars, selVars, planVars, hkVars, upVars, prVars, edVars>>

\* addMemberToCluster returns to addOrPromoteLearner and that to Run, which
\* fails the task on an error and calls startLearner otherwise
AD_Return ==
    /\ adPc = "returned"
    /\ adPc' = "done"
    /\ LET r == addMemberToCluster(adOut, adErr)
       IN  adRet' = [r EXCEPT !.next = IF r.err # "" THEN "fail" ELSE "startLearner"]
    /\ UNCHANGED <<adElapsed, adExists, adReplies, adOut, adErr,
                   coreVars, smVars, cmVars, selVars, planVars, hkVars, upVars, prVars, edVars>>

InitAdd ==
    /\ CoreIdle /\ SmIdle /\ CmIdle /\ SelIdle /\ PlanIdle /\ HkIdle /\ UpIdle /\ PrIdle /\ EdIdle
    /\ adPc = "run" /\ adElapsed = 0 /\ adExists = FALSE /\ adReplies = <<>>
    /\ adOut = <<>> /\ adErr = FALSE /\ adRet = NoAddReturn

NextAdd ==
    \/ \E o \in AddOutcomes, d \in CmdDurations : AD_Exec(o, d)
    \/ AD_Return

SpecAdd == InitAdd /\ [][NextAdd]_vars

\* etcd answered the last execution of member add with "Peer URLs already exists"
AddRejectedAsExisting ==
    /\ adPc = "done" /\ adReplies # <<>>
    /\ adReplies[Len(adReplies)] = PeerURLsExist

\* C29: when etcd rejects member add for the learner with "Peer URLs already
\* exists", the add step is a success with member ID 0 and Add-Member goes on
\* to start the learner
C29_ExistingPeerURLIsSuccess ==
    AddRejectedAsExisting
        => adRet.err = "" /\ adRet.id = 0 /\ adRet.next = "startLearner"

\* C36: in one Add-Member run the member add command for the learner is
\* executed on the master at most once, the retries of the command task counted
C36_MemberAddExecutedOnce == Len(adReplies) <= 1

\* ---------------------------------------------------------------------
\* A command task: CommandTask.Run
\* ---------------------------------------------------------------------

\* the timeout and the interval of Run when the Check gives none
DefaultTimeoutSec == 10

DefaultIntervalSec == 1

MaxCmExecs == 4

CmTimeoutSec == 8

CmIntervalSec == 3

\* the Checks a task is run with
Checks ==
    {NoCheck} \cup
    [set : {TRUE}, ExpectedExitCode : {0, 1}, ExpectedOutput : {"", "ready"},
     NotExpectedOutput : {"", "old"}, TimeoutSec : {0, CmTimeoutSec},
     RetryIntervalSec : {0, CmIntervalSec}]

\* what one client.Run may return: an error that is no ExitError, or an exit
\* status with the combined output
Executions ==
    {[transport |-> TRUE, exit |-> 0, out |-> <<>>]} \cup
    [transport : {FALSE}, exit : {0, 1, 2},
     out : {<<>>, <<"x">>, <<"ready">>, <<"old">>, <<"ready", "old">>}]

CmTimeout(c) == IF c.set /\ c.TimeoutSec > 0 THEN c.TimeoutSec ELSE DefaultTimeoutSec

CmInterval(c) ==
    IF c.set /\ c.RetryIntervalSec > 0 THEN c.RetryIntervalSec ELSE DefaultIntervalSec

\* the body of the loop of Run on one execution e: the error it records, "ok"
\* when it returns the output, "" when it reaches the end of the body
Validate(c, e) ==
    IF e.transport THEN "execution failed"
    ELSE IF c.set /\ e.exit # c.ExpectedExitCode THEN "exit code"
    ELSE IF c.set /\ c.ExpectedOutput # "" /\ ~Contains(e.out, c.ExpectedOutput)
    THEN "expected output not found"
    ELSE IF c.set /\ c.NotExpectedOutput # "" /\ Contains(e.out, c.NotExpectedOutput)
    THEN "not expected output found"
    ELSE IF e.exit = 0 /\ e.out # <<>> THEN "ok"
    ELSE ""

\* One pass of the loop of Run.
CM_Attempt(e, d) ==
    /\ cmPc = "loop"
    /\ cmElapsed < CmTimeout(cmCheck)
    /\ cmExecs < MaxCmExecs
    /\ cmExecs' = cmExecs + 1
    /\ cmLast' = e
    /\ LET v == Validate(cmCheck, e)
       IN  IF v = "ok"
           THEN /\ cmPc' = "done" /\ cmRet' = [out |-> e.out, err |-> ""]
                /\ cmElapsed' = cmElapsed + d /\ cmSlept' = FALSE
                /\ UNCHANGED cmLastErr
           ELSE IF v = ""
           THEN /\ cmElapsed' = cmElapsed + d /\ cmSlept' = FALSE
                /\ UNCHANGED <<cmPc, cmRet, cmLastErr>>
           ELSE /\ cmLastErr' = v
                /\ cmElapsed' = cmElapsed + d + CmInterval(cmCheck) /\ cmSlept' = TRUE
                /\ UNCHANGED <<cmPc, cmRet>>
    /\ UNCHANGED <<cmCheck, coreVars, smVars, selVars, adVars, planVars, hkVars, upVars, prVars, edVars>>

\* The timeout has passed: Run returns lasterr, or a plain timeout error.
CM_Deadline ==
    /\ cmPc = "loop"
    /\ cmElapsed >= CmTimeout(cmCheck)
    /\ cmPc' = "done"
    /\ cmRet' = [out |-> <<>>, err |-> IF cmLastErr # "" THEN cmLastErr ELSE "timed out"]
    /\ UNCHANGED <<cmCheck, cmElapsed, cmExecs, cmSlept, cmLast, cmLastErr,
                   coreVars, smVars, selVars, adVars, planVars, hkVars, upVars, prVars, edVars>>

InitCommand ==
    /\ CoreIdle /\ SmIdle /\ SelIdle /\ AdIdle /\ PlanIdle /\ HkIdle /\ UpIdle /\ PrIdle /\ EdIdle
    /\ cmCheck \in Checks
    /\ cmPc = "loop" /\ cmElapsed = 0 /\ cmExecs = 0 /\ cmSlept = FALSE
    /\ cmLast = NoExec /\ cmLastErr = "" /\ cmRet = NoRun

NextCommand ==
    \/ \E e \in Executions, d \in CmdDurations : CM_Attempt(e, d)
    \/ CM_Deadline

SpecCommand == InitCommand /\ [][NextCommand]_vars

\* the conditions of a successful attempt
AttemptPasses(c, e) ==
    /\ ~e.transport
    /\ e.exit = c.ExpectedExitCode
    /\ c.ExpectedOutput # "" => Contains(e.out, c.ExpectedOutput)
    /\ c.NotExpectedOutput # "" => ~Contains(e.out, c.NotExpectedOutput)
    /\ e.out # <<>>

\* Run has returned the output of the execution just made
ReturnedLastOutput == cmPc = "done" /\ cmRet.err = "" /\ cmRet.out = cmLast.out

C32_Step ==
    cmExecs' = cmExecs + 1 => (ReturnedLastOutput' <=> AttemptPasses(cmCheck, cmLast'))

\* C32: an attempt of a command task succeeds, and Run returns its combined
\* output, if and only if the exit code is the expected one, the expected
\* substring (when set) is in the output, the forbidden substring (when set)
\* is not, and the output is not empty; for every expected exit code
C32_AttemptSucceedsIffChecksPass == [][C32_Step]_vars

\* why an attempt that does not pass has failed
FailureReason(c, e) ==
    IF e.transport THEN "execution failed"
    ELSE IF e.exit # c.ExpectedExitCode THEN "exit code"
    ELSE IF c.ExpectedOutput # "" /\ ~Contains(e.out, c.ExpectedOutput)
    THEN "expected output not found"
    ELSE IF c.NotExpectedOutput # "" /\ Contains(e.out, c.NotExpectedOutput)
    THEN "not expected output found"
    ELSE "empty output"

C33_Step ==
    /\ cmExecs' = cmExecs + 1
         => /\ cmExecs > 0 => cmSlept
            /\ ~AttemptPasses(cmCheck, cmLast')
                 => /\ cmPc' = "loop" /\ cmSlept'
                    /\ cmLastErr' = FailureReason(cmCheck, cmLast')
    /\ (cmPc = "loop" /\ cmPc' = "done" /\ cmRet'.err # "")
         => /\ cmElapsed >= CmTimeout(cmCheck)
            /\ cmRet'.err = FailureReason(cmCheck, cmLast)

\* C33: every failed attempt of a command task records its reason and is
\* followed by a sleep of the retry interval, so that the command never runs
\* twice without a sleep in between, and after the deadline the task fails
\* with the reason of the last failed attempt
C33_FailedAttemptSleeps == [][C33_Step]_vars

\* ---------------------------------------------------------------------
\* The single-member predicate: isSingleMemberCluster
\* ---------------------------------------------------------------------

\* member IDs of the lists the predicate is tried on
ListIDs == {9, 10, 26}

\* the member lists, in the order of their IDs, of at most three members
IDLists ==
    {<<>>} \cup {<<a>> : a \in ListIDs}
          \cup {<<p[1], p[2]>> : p \in {q \in ListIDs \X ListIDs : q[1] < q[2]}}
          \cup {<<9, 10, 26>>}

\* what the member list command may give
ListResults == [err : BOOLEAN, parses : BOOLEAN, ids : IDLists, header : ListIDs]

SM_Call ==
    /\ smPc = "call"
    /\ smPc' = "done"
    /\ smOut' = singleMemberAnswer(smIn.err, smIn.parses, smIn.ids, smIn.header)
    /\ UNCHANGED <<smIn, coreVars, cmVars, selVars, adVars, planVars, hkVars, upVars,
                   prVars, edVars>>

InitSingle ==
    /\ CoreIdle /\ CmIdle /\ SelIdle /\ AdIdle /\ PlanIdle /\ HkIdle /\ UpIdle
    /\ PrIdle /\ EdIdle
    /\ smIn \in ListResults
    /\ smPc = "call" /\ smOut = NoAnswer

NextSingle == SM_Call

SpecSingle == InitSingle /\ [][NextSingle]_vars

\* the member list was retrieved and parsed
ListRead == ~smIn.err /\ smIn.parses

\* C34 as stated: the predicate answers true exactly when the list was
\* retrieved, parsed and has one member, then with that member's ID in
\* decimal; in every other case false with the header's member ID in decimal
C34_OtherwiseHeaderID ==
    smPc = "done"
        => /\ smOut.single = (ListRead /\ Len(smIn.ids) = 1)
           /\ smOut.single => smOut.id = FormatDec(smIn.ids[1])
           /\ ~smOut.single => smOut.id = FormatDec(smIn.header)

\* C34: the predicate answers true exactly when the list was retrieved, parsed
\* and has one member, then with that member's ID in decimal; with a list
\* read that has no or several members it answers false with the header's
\* member ID in decimal, and with no list read false with the empty string
C34_SingleMemberAnswer ==
    smPc = "done"
        => /\ smOut.single = (ListRead /\ Len(smIn.ids) = 1)
           /\ smOut.single => smOut.id = FormatDec(smIn.ids[1])
           /\ (~smOut.single /\ ListRead) => smOut.id = FormatDec(smIn.header)
           /\ ~ListRead => smOut.id = <<>>

C34_Witness ==
    /\ smPc = "done" /\ smIn.err /\ smIn.ids = <<10, 26>> /\ smIn.header = 26
    /\ ~smOut.single /\ smOut.id = <<>>
====
